---- MODULE Spec2Model ----
(***************************************************************************)
(* gnmi-netconf-adapter: a gNMI server facade over one NETCONF device      *)
(* session.  The module models the adapter's Set and Get handlers          *)
(* (pkg/adapter), the translation of paths and values to NETCONF XML, and  *)
(* the calls the handlers make on the device session.                      *)
(*                                                                         *)
(* XML documents are token sequences, as the handlers hand them to         *)
(* encoding/xml's Encoder; XmlString renders a token sequence the way the  *)
(* encoder writes it (texts are drawn from strings that need no escaping). *)
(***************************************************************************)
EXTENDS Integers, Sequences, FiniteSets, TLC

VARIABLES
    pc,         \* where the handler is: idle, the loop it is in, done, crashed
    req,        \* the request being served
    idx,        \* index of the next element of the current loop
    results,    \* Set: the UpdateResults collected so far
    notifs,     \* Get: the notifications collected so far
    ncsCalls,   \* the calls made on the device session for this request
    resp        \* what the RPC returned: status code and response

vars == <<pc, req, idx, results, notifs, ncsCalls, resp>>

----------------------------------------------------------------------------
(* Bounds of the model. *)

\* most elements in a whole Set request
MaxSetElems == 3
\* most paths in a Get request
MaxGetPaths == 2

----------------------------------------------------------------------------
(* gNMI paths.  A *gnmi.Path is nil or holds a list of elements; a list   *)
(* with no element is the nil slice (what the protobuf decoder delivers). *)

NoKey == << >>
PathElem(n) == [Name |-> n, Key |-> NoKey]
PathElemKey(n, k) == [Name |-> n, Key |-> k]
Path(elems) == [isNil |-> FALSE, Elem |-> elems]
NilPath == [isNil |-> TRUE, Elem |-> << >>]

\* (*gnmi.Path).GetElem: nil-safe accessor
GetElem(p) == IF p.isNil THEN << >> ELSE p.Elem

----------------------------------------------------------------------------
(* The compiled YANG schema tree (yang.Entry): a sample of the Junos tree  *)
(* with the entries the adapter's tests address.                           *)

NilEntry == [Kind |-> "nil"]
LeafEntry(n, t) == [Name |-> n, Kind |-> "leaf", Type |-> [Kind |-> t], Dir |-> << >>]
LeafListEntry(n, t) ==
    [Name |-> n, Kind |-> "leaf-list", Type |-> [Kind |-> t], Dir |-> << >>]
DirEntry(n, k, d) == [Name |-> n, Kind |-> k, Type |-> [Kind |-> "none"], Dir |-> d]

\* yang.YangType of the alternatives of a union: a string with its patterns,
\* an int32 with its ranges.  A pattern is the sequence of its characters.
StringType(patterns) == [Kind |-> "string", Pattern |-> patterns]
Int32Type(ranges) == [Kind |-> "int32", Range |-> ranges]
\* yang.Number: the absolute value and the sign
Number(value, negative) == [Value |-> value, Negative |-> negative]
FromInt(n) == Number(IF n < 0 THEN -n ELSE n, n < 0)
YRange(min, max) == [Min |-> FromInt(min), Max |-> FromInt(max)]
UnionEntry(n, types) ==
    [Name |-> n, Kind |-> "leaf", Type |-> [Kind |-> "union", Type |-> types],
     Dir |-> << >>]

\* max-sessions-per-connection is a union of a string with the pattern
\* "<.*>|$.*" and an int32 of range 1 .. 65535
schemaTreeRoot ==
    DirEntry("Device", "container",
      "configuration" :> DirEntry("configuration", "container",
           "version" :> LeafEntry("version", "string")
        @@ "apply-groups" :> LeafListEntry("apply-groups", "string")
        @@ "system" :> DirEntry("system", "container",
             "services" :> DirEntry("services", "container",
               "ssh" :> DirEntry("ssh", "container",
                 "max-sessions-per-connection" :>
                     UnionEntry("max-sessions-per-connection",
                       <<StringType(<< <<"<", ".", "*", ">", "|", "$", ".", "*">> >>),
                         Int32Type(<<YRange(1, 65535)>>)>>))))
        @@ "interfaces" :> DirEntry("interfaces", "container",
             "interface" :> DirEntry("interface", "list",
                  "name" :> LeafEntry("name", "string")
               @@ "otn-options" :> DirEntry("otn-options", "container",
                       "rate" :> LeafEntry("rate", "enum")
                    @@ "laser-enable" :> LeafEntry("laser-enable", "string"))))))

\* yang.Entry kind predicates
IsDir(e) == e.Kind \in {"container", "list"}
IsLeaf(e) == e.Kind = "leaf"
IsLeafList(e) == e.Kind = "leaf-list"
IsList(e) == e.Kind = "list"
IsContainer(e) == e.Kind = "container"

getChildSchema(name, parent) ==
    IF name \in DOMAIN parent.Dir THEN parent.Dir[name] ELSE NilEntry

RECURSIVE walkSchema(_, _, _)
walkSchema(entry, elems, i) ==
    IF i > Len(elems) THEN entry
    ELSE LET next == getChildSchema(elems[i].Name, entry)
         IN  IF next = NilEntry THEN NilEntry ELSE walkSchema(next, elems, i + 1)

getSchemaEntryForPath(path) == walkSchema(schemaTreeRoot, path.Elem, 1)

----------------------------------------------------------------------------
(* util.go *)

\* a path whose Elem slice has room for cap elements; a path built with Path
\* has room for its own elements and no more
PathWithCap(elems, cap) == [isNil |-> FALSE, Elem |-> elems, Cap |-> cap]
Cap(p) ==
    IF p.isNil THEN 0 ELSE IF "Cap" \in DOMAIN p THEN p.Cap ELSE Len(p.Elem)

gnmiFullPath(prefix, path) ==
    Path(IF path.Elem # << >> THEN GetElem(prefix) \o path.Elem ELSE << >>)

\* append(prefix.GetElem(), path.GetElem()...) allocates no new array when the
\* array of prefix.Elem has room for the elements of path: it writes them
\* behind the elements of the prefix, and the result shares that array
appendsInPlace(prefix, path) ==
    /\ ~prefix.isNil
    /\ path.Elem # << >>
    /\ Len(prefix.Elem) + Len(path.Elem) <= Cap(prefix)

\* the notifications ns built for the first paths of request r, as they read
\* after gnmiFullPath(r.prefix, path): an update path that lies in the array
\* of the prefix shows the elements of path written over its own
aliased(ns, r, path) ==
    [j \in 1..Len(ns) |->
       IF appendsInPlace(r.prefix, r.path[j]) /\ appendsInPlace(r.prefix, path)
       THEN [ns[j] EXCEPT !.Update[1].Path.Elem =
               [k \in 1..Len(@) |->
                  IF k > Len(r.prefix.Elem)
                       /\ k <= Len(r.prefix.Elem) + Len(path.Elem)
                  THEN path.Elem[k - Len(r.prefix.Elem)]
                  ELSE @[k]]]
       ELSE ns[j]]

\* the full path as Set and Get resolve it
resolveFullPath(prefix, path) ==
    IF ~prefix.isNil THEN gnmiFullPath(prefix, path) ELSE path

----------------------------------------------------------------------------
(* gNMI typed values and the JSON documents a JsonVal carries.  A JSON     *)
(* document is modelled by what encoding/json decodes it to.               *)

NilValue == [kind |-> "nil"]
IntVal(n) == [kind |-> "int", n |-> n]
StringVal(s) == [kind |-> "string", s |-> s]
JsonVal(j) == [kind |-> "json", json |-> j]

JObj(m) == [j |-> "object", m |-> m]
JStr(s) == [j |-> "string", s |-> s]
JNum(n) == [j |-> "number", n |-> n]
JBad == [j |-> "malformed"]
JNoBytes == [j |-> "nobytes"]

\* (*gnmi.TypedValue).GetJsonVal: the bytes of a JsonVal, nil for anything else
GetJsonVal(tv) == IF tv.kind = "json" THEN tv.json ELSE JNoBytes

\* fmt.Sprintf("%v", v) of a scalar or of a decoded JSON value
\* (numbers below 10^6 print as plain decimals)
Sprintf(v) ==
    CASE v.j = "string" -> v.s
      [] v.j = "number" -> ToString(v.n)

----------------------------------------------------------------------------
(* encoding/xml tokens. *)

StartElement(n) == [t |-> "start", name |-> n, attr |-> ""]
StartElementOp(n, a) == [t |-> "start", name |-> n, attr |-> a]
CharData(s) == [t |-> "chars", text |-> s]
EndElement(n) == [t |-> "end", name |-> n]

TokenString(tk) ==
    CASE tk.t = "start" ->
            IF tk.attr = "" THEN "<" \o tk.name \o ">"
            ELSE "<" \o tk.name \o " operation=\"" \o tk.attr \o "\">"
      [] tk.t = "chars" -> tk.text
      [] tk.t = "end" -> "</" \o tk.name \o ">"

RECURSIVE XmlString(_)
XmlString(tokens) ==
    IF tokens = << >> THEN ""
    ELSE TokenString(Head(tokens)) \o XmlString(Tail(tokens))

----------------------------------------------------------------------------
(* Go map iteration.  "for k, v := range elem.Key" visits the keys in an   *)
(* order the runtime chooses; ord is the order chosen for one traversal.   *)

KeyOrders == {<<"name", "unit">>, <<"unit", "name">>}

RECURSIVE keyTokens(_, _, _)
keyTokens(key, ord, i) ==
    IF i > Len(ord) THEN << >>
    ELSE (IF ord[i] \in DOMAIN key
          THEN <<StartElement(ord[i]), CharData(key[ord[i]]), EndElement(ord[i])>>
          ELSE << >>) \o keyTokens(key, ord, i + 1)

\* the end elements that close a path's start elements, innermost first
RECURSIVE closeTokens(_, _)
closeTokens(elems, i) ==
    IF i < 1 THEN << >>
    ELSE <<EndElement(elems[i].Name)>> \o closeTokens(elems, i - 1)

----------------------------------------------------------------------------
(* set.go: translation of one Set element to an edit-config document. *)

mapOperation(op) ==
    CASE op = "DELETE" -> "delete"
      [] op = "REPLACE" -> "replace"
      [] op = "UPDATE" -> "merge"

RECURSIVE mapPathFrom(_, _, _, _)
mapPathFrom(elems, i, op, ord) ==
    IF i > Len(elems) THEN << >>
    ELSE LET startEl == IF i = Len(elems)
                        THEN StartElementOp(elems[i].Name, mapOperation(op))
                        ELSE StartElement(elems[i].Name)
         IN  <<startEl>> \o keyTokens(elems[i].Key, ord, 1)
                 \o mapPathFrom(elems, i + 1, op, ord)

mapPathToNetconf(fullPath, op, ord) == mapPathFrom(fullPath.Elem, 1, op, ord)

\* Go's order on strings (bytewise), tabulated for the names of the schema
\* and of the requests: the names in ascending order
SortedNames ==
    <<"apply-groups", "bogus", "configuration", "interface", "interfaces",
      "laser-enable", "max-sessions-per-connection", "name", "notintheschema",
      "otn-options", "rate", "services", "ssh", "system", "unit", "version">>

\* sort.Slice with the comparison keys[i] < keys[j]: the least key first
RECURSIVE sortSlice(_)
sortSlice(keys) ==
    IF keys = {} THEN << >>
    ELSE LET rank(x) == CHOOSE i \in 1..Len(SortedNames) : SortedNames[i] = x
             less(a, b) == rank(a) < rank(b)
             first == CHOOSE k \in keys : \A o \in keys \ {k} : less(k, o)
         IN  <<first>> \o sortSlice(keys \ {first})

\* keys sorted with the comparison turned round
sortMapKeysDescending(input) ==
    LET asc == sortSlice(DOMAIN input)
    IN  [i \in 1..Len(asc) |-> asc[Len(asc) - i + 1]]

sortMapKeys(input) == sortSlice(DOMAIN input)

RECURSIVE jsonMapToXML(_)
RECURSIVE jsonKeysToXML(_, _, _)
jsonKeysToXML(input, keys, i) ==
    IF i > Len(keys) THEN << >>
    ELSE LET k == keys[i]
             v == input[k]
         IN  <<StartElement(k)>>
               \o (IF v.j = "object" THEN jsonMapToXML(v.m)
                   ELSE <<CharData(Sprintf(v))>>)
               \o <<EndElement(k)>>
               \o jsonKeysToXML(input, keys, i + 1)

jsonMapToXML(input) == jsonKeysToXML(input, sortMapKeys(input), 1)

\* value.ToScalar of the typed values the model draws
ToScalar(inval) ==
    CASE inval.kind = "int" -> [err |-> "OK", v |-> JNum(inval.n)]
      [] inval.kind = "string" -> [err |-> "OK", v |-> JStr(inval.s)]
      [] OTHER -> [err |-> "Unknown", v |-> JNoBytes]

\* json.Unmarshal into an interface{}: whatever the document holds
Unmarshal(bytes) ==
    IF bytes.j \in {"nobytes", "malformed"}
    THEN [err |-> "Unknown", v |-> JNoBytes]
    ELSE [err |-> "OK", v |-> bytes]

mapValue(entry, inval) ==
    IF IsDir(entry) THEN Unmarshal(GetJsonVal(inval)) ELSE ToScalar(inval)

\* the type assertion editValue.(map[string]interface{}) panics unless the
\* decoded document is an object
mapSetValueToNetconf(schema, inval) ==
    LET r == mapValue(schema, inval)
    IN  IF r.err # "OK" THEN [err |-> r.err, tokens |-> << >>]
        ELSE IF IsDir(schema)
             THEN IF r.v.j = "object"
                  THEN [err |-> "OK", tokens |-> jsonMapToXML(r.v.m)]
                  ELSE [err |-> "PANIC", tokens |-> << >>]
             ELSE [err |-> "OK", tokens |-> <<CharData(Sprintf(r.v))>>]

\* the request handed to the session: nil, or the XML document
NilRequest == [isNil |-> TRUE, xml |-> "", tokens |-> << >>]
XmlRequest(doc) == [isNil |-> FALSE, xml |-> XmlString(doc), tokens |-> doc]

gnmiToNetconfOperation(op, prefix, path, inval, ord) ==
    LET fullPath == resolveFullPath(prefix, path)
        entry == getSchemaEntryForPath(fullPath)
    IN  IF entry = NilEntry THEN [err |-> "NotFound", request |-> NilRequest]
        ELSE LET body == IF op # "DELETE" THEN mapSetValueToNetconf(entry, inval)
                         ELSE [err |-> "OK", tokens |-> << >>]
                 doc == mapPathToNetconf(fullPath, op, ord) \o body.tokens
                          \o closeTokens(fullPath.Elem, Len(fullPath.Elem))
             IN  IF body.err # "OK" THEN [err |-> body.err, request |-> NilRequest]
                 ELSE IF XmlString(doc) = "" THEN [err |-> "OK", request |-> NilRequest]
                 ELSE [err |-> "OK", request |-> XmlRequest(doc)]

----------------------------------------------------------------------------
(* get.go: the subtree filter of a Get path. *)

\* a filter that writes the keys of a step before the step's own element
RECURSIVE subtreeFromKeysFirst(_, _, _)
subtreeFromKeysFirst(elems, i, ord) ==
    IF i > Len(elems) THEN << >>
    ELSE keyTokens(elems[i].Key, ord, 1) \o <<StartElement(elems[i].Name)>>
             \o subtreeFromKeysFirst(elems, i + 1, ord)

RECURSIVE subtreeFrom(_, _, _)
subtreeFrom(elems, i, ord) ==
    IF i > Len(elems) THEN << >>
    ELSE <<StartElement(elems[i].Name)>> \o keyTokens(elems[i].Key, ord, 1)
             \o subtreeFrom(elems, i + 1, ord)

\* a filter that is an empty document, not nil, for a path with no elements
pathToNetconfSubtreeEmptyDoc(path, ord) ==
    XmlRequest(subtreeFrom(path.Elem, 1, ord) \o closeTokens(path.Elem, Len(path.Elem)))

\* the filter handed to the session: nil for a path with no elements
pathToNetconfSubtree(path, ord) ==
    IF Len(path.Elem) = 0 THEN NilRequest
    ELSE XmlRequest(subtreeFrom(path.Elem, 1, ord)
                      \o closeTokens(path.Elem, Len(path.Elem)))

----------------------------------------------------------------------------
(* get.go: decoding of the device's XML into the intermediate tree.  Go    *)
(* values: a map is a reference into the heap of maps under construction,  *)
(* a slice holds its elements, scalars are strings and integers.           *)

GoRef(id) == [g |-> "ref", id |-> id]
GoMap(m) == [g |-> "map", m |-> m]
GoSlice(q) == [g |-> "slice", s |-> q]
GoString(str) == [g |-> "string", s |-> str]
GoUint64(n) == [g |-> "uint64", n |-> n]
GoInt64(n) == [g |-> "int64", n |-> n]
GoNil == [g |-> "nil"]
\* a call that did not return: the goroutine panicked
GoPanic == [g |-> "panic"]

\* m[k] = v on a Go map
MapPut(m, k, v) == [x \in DOMAIN m \cup {k} |-> IF x = k THEN v ELSE m[x]]

\* strings.TrimSpace, tabulated for the texts the model draws
PaddedTexts == " otu4 " :> "otu4" @@ " 64 " :> "64"
TrimSpace(str) == IF str \in DOMAIN PaddedTexts THEN PaddedTexts[str] ELSE str

\* the decimal numerals among the texts the model draws
Numerals == "0" :> 0 @@ "32" :> 32 @@ "64" :> 64 @@ "2147483647" :> 2147483647

\* strconv.ParseUint(s, 10, 64): the value, 0 on a parse error
ParseUint(str) == IF str \in DOMAIN Numerals THEN Numerals[str] ELSE 0

\* the signed decimal numerals among the texts the model draws, all of them
\* within 32 bits
SignedNumerals == Numerals @@ "-5" :> -5

\* strconv.ParseInt(s, 10, 32): an error for a text that is no numeral
ParseInt(str) ==
    IF str \in DOMAIN SignedNumerals
    THEN [err |-> "nil", val |-> SignedNumerals[str]]
    ELSE [err |-> "error", val |-> 0]

\* the loop of fixYangRegexp from character i on
RECURSIVE fixFrom(_, _, _, _, _, _)
fixFrom(pattern, i, buf, inEscape, prevChar, addParens) ==
    IF i > Len(pattern) THEN buf
    ELSE LET ch == pattern[i]
             open == i = 1 /\ ch # "^"
             b1 == IF open THEN buf \o <<"^", "(">> ELSE buf
             escape == \/ ch = "$" /\ ~inEscape /\ i # Len(pattern)
                       \/ ch = "^" /\ ~inEscape /\ prevChar # "[" /\ i # 1
             b2 == Append(IF escape THEN Append(b1, "\\") ELSE b1, ch)
             b3 == IF i # Len(pattern) THEN b2
                   ELSE (IF addParens \/ open THEN Append(b2, ")") ELSE b2)
                          \o (IF ch # "$" THEN <<"$">> ELSE << >>)
         IN  fixFrom(pattern, i + 1, b3, ~inEscape /\ ch = "\\", ch, addParens \/ open)

fixYangRegexp(pattern) == fixFrom(pattern, 1, << >>, FALSE, "", FALSE)

\* the index of the "]" that closes the character class whose first member is
\* at j, 0 if there is none; a "]" that comes first is a member
RECURSIVE classEnd(_, _, _)
classEnd(re, j, first) ==
    IF j > Len(re) THEN 0
    ELSE IF re[j] = "]" /\ ~first THEN j
    ELSE IF re[j] = "\\" THEN classEnd(re, j + 2, FALSE)
    ELSE classEnd(re, j + 1, FALSE)

\* regexp.Compile of an expression made of literals, ".", "^", "$", escapes,
\* groups, character classes and "*": the error it returns.  depth counts the
\* open groups, canRepeat tells that a "*" may follow.
RECURSIVE compileFrom(_, _, _, _)
compileFrom(re, i, depth, canRepeat) ==
    IF i > Len(re) THEN (IF depth = 0 THEN "nil" ELSE "error")
    ELSE CASE re[i] = "\\" ->
                IF i = Len(re) THEN "error" ELSE compileFrom(re, i + 2, depth, TRUE)
           [] re[i] = "(" -> compileFrom(re, i + 1, depth + 1, FALSE)
           [] re[i] = ")" ->
                IF depth = 0 THEN "error" ELSE compileFrom(re, i + 1, depth - 1, TRUE)
           [] re[i] = "*" ->
                IF canRepeat THEN compileFrom(re, i + 1, depth, FALSE) ELSE "error"
           [] re[i] = "|" -> compileFrom(re, i + 1, depth, FALSE)
           [] re[i] = "[" ->
                LET from == IF i < Len(re) /\ re[i + 1] = "^" THEN i + 2 ELSE i + 1
                    close == classEnd(re, from, TRUE)
                IN  IF close = 0 THEN "error"
                    ELSE compileFrom(re, close + 1, depth, TRUE)
           [] OTHER -> compileFrom(re, i + 1, depth, TRUE)

Compile(re) == compileFrom(re, 1, 0, FALSE)

\* err != nil && r.MatchString(v): with no error the conjunction is false and
\* the match is not evaluated; with an error r is nil and MatchString
\* dereferences it
patternMatches(v, p) ==
    IF Compile(fixYangRegexp(p)) = "nil" THEN [err |-> "OK", ok |-> FALSE]
    ELSE [err |-> "PANIC", ok |-> FALSE]

RECURSIVE anyPatternFrom(_, _, _)
anyPatternFrom(v, patterns, i) ==
    IF i > Len(patterns) THEN [err |-> "OK", ok |-> TRUE]
    ELSE LET m == patternMatches(v, patterns[i])
         IN  IF m.err # "OK" THEN m
             ELSE IF ~m.ok THEN [err |-> "OK", ok |-> FALSE]
             ELSE anyPatternFrom(v, patterns, i + 1)

anyPatternMatches(v, patterns) == anyPatternFrom(v, patterns, 1)

isValidString(v, t) == anyPatternMatches(v, t.Pattern)

\* the first range that holds val, compared with the Value fields of its ends
RECURSIVE inRangeFrom(_, _, _)
inRangeFrom(val, ranges, i) ==
    IF i > Len(ranges) THEN GoNil
    ELSE IF val >= ranges[i].Min.Value /\ val <= ranges[i].Max.Value
    THEN GoInt64(val)
    ELSE inRangeFrom(val, ranges, i + 1)

isValidInt(v, t) ==
    LET r == ParseInt(v)
    IN  IF r.err # "nil" THEN GoNil ELSE inRangeFrom(r.val, t.Range, 1)

RECURSIVE unionFrom(_, _, _)
unionFrom(v, types, i) ==
    IF i > Len(types) THEN [err |-> "NotFound", val |-> GoNil]
    ELSE CASE types[i].Kind = "string" ->
                LET m == isValidString(v, types[i])
                IN  IF m.err # "OK" THEN [err |-> "PANIC", val |-> GoNil]
                    ELSE IF m.ok THEN [err |-> "nil", val |-> GoString(v)]
                    ELSE unionFrom(v, types, i + 1)
           [] types[i].Kind = "int32" ->
                LET val == isValidInt(v, types[i])
                IN  IF val # GoNil THEN [err |-> "nil", val |-> val]
                    ELSE unionFrom(v, types, i + 1)
           [] OTHER -> unionFrom(v, types, i + 1)

getUnionValue(v, types) == unionFrom(v, types, 1)

getLeafValue(v, schema) ==
    CASE schema.Type.Kind = "string" -> GoString(TrimSpace(v))
      [] schema.Type.Kind = "union" ->
           LET r == getUnionValue(TrimSpace(v), schema.Type.Type)
           IN  IF r.err = "PANIC" THEN GoPanic ELSE r.val
      [] schema.Type.Kind = "uint32" -> GoUint64(ParseUint(TrimSpace(v)))
      [] schema.Type.Kind = "enum" -> GoString(TrimSpace(v))
      [] OTHER -> GoString(TrimSpace(v))

\* eldesc: the schema entry of an element and the heap index of its children map
Eldesc(schema, children) == [schema |-> schema, children |-> children]

\* the decoder's state: the heap of maps and the stack of in-scope elements,
\* cureld on top, each element's parent right below it
DecoderStart == [heap |-> << << >> >>, stack |-> <<Eldesc(schemaTreeRoot, 1)>>]

linkNodeToParent(nschema, d) ==
    LET n == Len(d.stack)
        cureld == d.stack[n]
        parent == d.stack[n - 1]
        pmap == d.heap[parent.children]
        tag == nschema.Name
    IN  IF IsList(nschema) \/ IsLeafList(nschema)
        THEN LET have == IF tag \in DOMAIN pmap THEN pmap[tag] ELSE GoSlice(<< >>)
                 now == IF IsList(nschema)
                        THEN GoSlice(Append(have.s, GoRef(cureld.children)))
                        ELSE have
             IN  [d EXCEPT !.heap[parent.children] = MapPut(pmap, tag, now)]
        ELSE IF IsContainer(nschema)
        THEN [d EXCEPT !.heap[parent.children] = MapPut(pmap, tag, GoRef(cureld.children))]
        ELSE d

addLeafValueToParent(input, d) ==
    LET n == Len(d.stack)
        cureld == d.stack[n]
        parent == d.stack[n - 1]
        pmap == d.heap[parent.children]
        value == getLeafValue(input, cureld.schema)
        tag == cureld.schema.Name
    IN  IF IsLeaf(cureld.schema)
        THEN [d EXCEPT !.heap[parent.children] = MapPut(pmap, tag, value)]
        ELSE [d EXCEPT !.heap[parent.children] =
                         MapPut(pmap, tag, GoSlice(Append(pmap[tag].s, value)))]

\* a decoder that reads the children of an element it does not know as
\* children of the element around it
decodeTokenTransparent(d, tk) ==
    LET cureld == d.stack[Len(d.stack)]
    IN  CASE tk.t = "start" ->
               LET nschema == IF cureld.schema # NilEntry
                              THEN getChildSchema(tk.name, cureld.schema)
                              ELSE NilEntry
                   pushed == [heap |-> Append(d.heap, << >>),
                              stack |-> Append(d.stack,
                                               Eldesc(nschema, Len(d.heap) + 1))]
               IN  IF nschema = NilEntry
                   THEN [d EXCEPT !.stack = Append(d.stack, cureld)]
                   ELSE linkNodeToParent(nschema, pushed)
          [] tk.t = "end" -> [d EXCEPT !.stack = SubSeq(d.stack, 1, Len(d.stack) - 1)]
          [] tk.t = "chars" ->
               IF cureld.schema # NilEntry
                    /\ (IsLeaf(cureld.schema) \/ IsLeafList(cureld.schema))
               THEN addLeafValueToParent(tk.text, d)
               ELSE d

\* one token of the decoder's loop
decodeToken(d, tk) ==
    LET cureld == d.stack[Len(d.stack)]
    IN  CASE tk.t = "start" ->
               LET nschema == IF cureld.schema # NilEntry
                              THEN getChildSchema(tk.name, cureld.schema)
                              ELSE NilEntry
                   pushed == [heap |-> Append(d.heap, << >>),
                              stack |-> Append(d.stack,
                                               Eldesc(nschema, Len(d.heap) + 1))]
               IN  IF nschema = NilEntry THEN pushed
                   ELSE linkNodeToParent(nschema, pushed)
          [] tk.t = "end" -> [d EXCEPT !.stack = SubSeq(d.stack, 1, Len(d.stack) - 1)]
          [] tk.t = "chars" ->
               IF cureld.schema # NilEntry
                    /\ (IsLeaf(cureld.schema) \/ IsLeafList(cureld.schema))
               THEN addLeafValueToParent(tk.text, d)
               ELSE d

RECURSIVE decodeFrom(_, _, _)
decodeFrom(d, tokens, i) ==
    IF i > Len(tokens) THEN d ELSE decodeFrom(decodeToken(d, tokens[i]), tokens, i + 1)

\* a Go value with the maps it refers to read from the heap
RECURSIVE Deref(_, _)
Deref(heap, v) ==
    CASE v.g = "ref" -> GoMap([k \in DOMAIN heap[v.id] |-> Deref(heap, heap[v.id][k])])
      [] v.g = "slice" -> GoSlice([i \in 1..Len(v.s) |-> Deref(heap, v.s[i])])
      [] OTHER -> v

\* top, as the caller walks it
netconfXMLtoMap(result) == Deref(decodeFrom(DecoderStart, result, 1).heap, GoRef(1))

----------------------------------------------------------------------------
(* get.go: extraction of the requested node and the notification. *)

\* a walk that goes on with the last entry of a list
LastMapOf(v) ==
    IF Len(v.s) = 0 \/ v.s[Len(v.s)].g # "map" THEN [err |-> "PANIC", v |-> GoNil]
    ELSE [err |-> "OK", v |-> v.s[Len(v.s)]]

\* v[0].(map[string]interface{}): panics on an empty slice and on a first
\* element that is not a map
FirstMapOf(v) ==
    IF Len(v.s) = 0 \/ v.s[1].g # "map" THEN [err |-> "PANIC", v |-> GoNil]
    ELSE [err |-> "OK", v |-> v.s[1]]

\* a walk that takes a step the tree does not hold for an empty node
RECURSIVE requestedFromOrEmpty(_, _, _)
requestedFromOrEmpty(input, elems, i) ==
    IF i > Len(elems)
    THEN IF input.g = "slice" THEN FirstMapOf(input) ELSE [err |-> "OK", v |-> input]
    ELSE LET nextmap == CASE input.g = "map" -> [err |-> "OK", v |-> input]
                          [] input.g = "slice" -> FirstMapOf(input)
                          [] OTHER -> [err |-> "OK", v |-> GoMap(<< >>)]
         IN  IF nextmap.err # "OK" THEN nextmap
             ELSE IF elems[i].Name \notin DOMAIN nextmap.v.m
                       \/ nextmap.v.m[elems[i].Name] = GoNil
                  THEN [err |-> "OK", v |-> GoMap(<< >>)]
                  ELSE requestedFromOrEmpty(nextmap.v.m[elems[i].Name], elems, i + 1)

RECURSIVE requestedFrom(_, _, _)
requestedFrom(input, elems, i) ==
    IF i > Len(elems)
    THEN IF input.g = "slice" THEN FirstMapOf(input) ELSE [err |-> "OK", v |-> input]
    ELSE LET nextmap == CASE input.g = "map" -> [err |-> "OK", v |-> input]
                          [] input.g = "slice" -> FirstMapOf(input)
                          [] OTHER -> [err |-> "OK", v |-> GoMap(<< >>)]
         IN  IF nextmap.err # "OK" THEN nextmap
             ELSE IF elems[i].Name \notin DOMAIN nextmap.v.m
                       \/ nextmap.v.m[elems[i].Name] = GoNil
                  THEN [err |-> "NotFound", v |-> GoNil]
                  ELSE requestedFrom(nextmap.v.m[elems[i].Name], elems, i + 1)

getRequestedNode(input, path) == requestedFrom(input, path.Elem, 1)

\* value.FromScalar of the scalars the decoder stores
FromScalar(v) ==
    CASE v.g = "string" -> [err |-> "OK", val |-> StringVal(v.s)]
      [] v.g = "uint64" -> [err |-> "OK", val |-> [kind |-> "uint", n |-> v.n]]
      [] v.g = "int64" -> [err |-> "OK", val |-> IntVal(v.n)]
      [] OTHER -> [err |-> "Internal", val |-> NilValue]

\* a Notification with the prefix and the single update (the timestamp, the
\* time of the call, is left out)
\* a notification that leaves the prefix out
notificationNoPrefix(prefix, update) == [Prefix |-> NilPath, Update |-> <<update>>]

notification(prefix, update) == [Prefix |-> prefix, Update |-> <<update>>]

NilNotification == [isNil |-> TRUE]

\* a notification that carries every value as JSON, whatever the entry
buildGnmiNotificationJson(entry, requestedValue, path, prefix) ==
    [err |-> "OK",
     n |-> notification(prefix, [Path |-> path, Val |-> JsonVal(requestedValue)])]

buildGnmiNotification(entry, requestedValue, path, prefix) ==
    IF IsLeaf(entry)
    THEN LET r == FromScalar(requestedValue)
         IN  IF r.err # "OK" THEN [err |-> "Internal", n |-> NilNotification]
             ELSE [err |-> "OK",
                   n |-> notification(prefix, [Path |-> path, Val |-> r.val])]
    ELSE IF IsDir(entry)
    THEN [err |-> "OK",
          n |-> notification(prefix, [Path |-> path, Val |-> JsonVal(requestedValue)])]
    ELSE [err |-> "PANIC", n |-> NilNotification]

netconfValueToGnmi(entry, result, path, prefix) ==
    LET netconfMap == netconfXMLtoMap(result)
        requested == getRequestedNode(netconfMap, path)
    IN  IF requested.err # "OK" THEN [err |-> requested.err, n |-> NilNotification]
        ELSE buildGnmiNotification(entry, requested.v, path, prefix)

----------------------------------------------------------------------------
(* util.go: checkEncodingAndModel. *)

\* an adapter that advertises a second encoding
supportedEncodingsWithProto == <<"JSON", "PROTO">>

supportedEncodings == <<"JSON">>

ModelData(n, o, v) == [Name |-> n, Organization |-> o, Version |-> v]

\* modeldata.ModelData, the models given to the adapter
modelData ==
    << ModelData("junos-conf-interfaces", "Juniper", "2019-01-01"),
       ModelData("junos-conf-system", "Juniper", "2019-01-01") >>

\* x occurs in the list q
InList(x, q) == \E i \in 1..Len(q) : q[i] = x

\* a check that compares the models by name alone
checkEncodingAndModelByName(encoding, models) ==
    IF ~InList(encoding, supportedEncodings) THEN "unsupported encoding"
    ELSE IF \E i \in 1..Len(models) :
              ~\E j \in 1..Len(modelData) : models[i].Name = modelData[j].Name
         THEN "unsupported model"
         ELSE "nil"

checkEncodingAndModel(encoding, models) ==
    IF ~InList(encoding, supportedEncodings) THEN "unsupported encoding"
    ELSE IF \E i \in 1..Len(models) : ~InList(models[i], modelData)
         THEN "unsupported model"
         ELSE "nil"

----------------------------------------------------------------------------
(* The requests the model draws. *)


PConfiguration == <<PathElem("configuration")>>
PVersion == <<PathElem("version")>>
PInterface == <<PathElem("interfaces"), PathElemKey("interface", "name" :> "0/3/0" @@ "unit" :> "0")>>
POtnOptions == <<PathElem("interfaces"), PathElemKey("interface", "name" :> "0/3/0"),
                 PathElem("otn-options")>>
PBogus == <<PathElem("bogus")>>
PMaxSessions == <<PathElem("system"), PathElem("services"), PathElem("ssh"),
                  PathElem("max-sessions-per-connection")>>
PRate == <<PathElem("interfaces"), PathElemKey("interface", "name" :> "0/3/0"),
           PathElem("otn-options"), PathElem("rate")>>
PApplyGroups == <<PathElem("apply-groups")>>

Prefixes == {NilPath, Path(PConfiguration), Path(PBogus)}

SetPaths ==
    {Path(<< >>), Path(PConfiguration \o PVersion), Path(PInterface), Path(PBogus)}

Update(path, val) == [path |-> path, val |-> val]

\* {"version": "XVZ", "interfaces": {"interface": {"otn-options": {"rate":
\* "otu4", "laser-enable": ""}, "name": "0/3/0"}}}
ConfigurationObj ==
    JObj("version" :> JStr("XVZ")
         @@ "interfaces" :> JObj("interface" :>
               JObj("otn-options" :> JObj("rate" :> JStr("otu4")
                                          @@ "laser-enable" :> JStr(""))
                    @@ "name" :> JStr("0/3/0"))))

SetUpdates ==
    { Update(Path(<< >>), JsonVal(JObj("version" :> JStr("XVZ")))),
      Update(Path(PVersion), StringVal("ABC")),
      Update(Path(PConfiguration), JsonVal(ConfigurationObj)),
      Update(Path(PConfiguration), JsonVal(JBad)),
      Update(Path(PConfiguration), JsonVal(JNum(64))),
      Update(Path(POtnOptions),
             JsonVal(JObj("rate" :> JStr("otu4") @@ "laser-enable" :> JStr("")))),
      Update(Path(PBogus), StringVal("ABC")) }

\* all sequences over S of length at most n
RECURSIVE SeqsUpTo(_, _)
SeqsUpTo(S, n) ==
    IF n = 0 THEN {<< >>}
    ELSE LET shorter == SeqsUpTo(S, n - 1)
         IN  shorter \cup {Append(q, x) : q \in {r \in shorter : Len(r) = n - 1}, x \in S}

SetRequest(prefix, del, rep, upd) ==
    [rpc |-> "Set", prefix |-> prefix, delete |-> del, replace |-> rep, update |-> upd]

GetPaths ==
    {Path(<< >>), Path(PVersion), Path(PConfiguration), Path(PInterface), Path(PBogus),
     Path(PConfiguration \o PMaxSessions), Path(PRate), Path(PApplyGroups)}

Encodings == {"JSON", "PROTO"}

UseModels ==
    { << >>,
      <<modelData[2]>>,
      <<modelData[1], ModelData("junos-conf-system", "Juniper", "2020-01-01")>>,
      <<ModelData("", "", "")>> }

GetRequest(enc, models, prefix, paths) ==
    [rpc |-> "Get", encoding |-> enc, useModels |-> models, prefix |-> prefix,
     path |-> paths]

\* an element with a text, as the device writes it
XmlLeaf(n, text) == <<StartElement(n), CharData(text), EndElement(n)>>
XmlNode(n, inner) == <<StartElement(n)>> \o inner \o <<EndElement(n)>>

\* documents the device answers a get-config with
NcResults ==
    { << >>,
      XmlNode("configuration",
              XmlLeaf("version", "ABC")
                \o XmlNode("notintheschema", XmlLeaf("version", "XYZ"))
                \o XmlNode("system", XmlNode("services", XmlNode("ssh",
                       XmlLeaf("max-sessions-per-connection", "64"))))
                \o XmlNode("apply-groups", << >>)),
      XmlNode("configuration",
        XmlNode("interfaces",
             XmlNode("interface",
                     XmlLeaf("name", "0/3/1")
                       \o XmlNode("otn-options", XmlLeaf("rate", " otu4 ")))
          \o XmlNode("interface", XmlLeaf("name", "0/3/0")))
          \o XmlLeaf("apply-groups", "global") \o XmlLeaf("apply-groups", "lab")),
      XmlNode("configuration",
        XmlNode("version", << >>)
          \o XmlNode("system", XmlNode("services", XmlNode("ssh",
                 XmlLeaf("max-sessions-per-connection", "32"))))) }

NoRequest == [rpc |-> "none"]
NoResponse == [code |-> "none"]
NilResponse == [isNil |-> TRUE]

----------------------------------------------------------------------------
(* The device session (ops.OpSession): the calls it received. *)

CandidateCfg == "candidate"
RunningCfg == "running"
\* err is what the session answered: "nil" or "error"
EditConfigCfgCall(target, request, err) ==
    [op |-> "EditConfigCfg", target |-> target, request |-> request, err |-> err]

----------------------------------------------------------------------------
(* set.go: Adapter.Set.  One step per element: executeOperation blocks on  *)
(* the device session.                                                     *)

\* a handler that runs the update loop before the replace loop
RECURSIVE loopFromUpdateFirst(_, _, _)
loopFromUpdateFirst(r, loop, i) ==
    CASE loop = "delete" ->
            IF i <= Len(r.delete) THEN <<"delete", i>>
            ELSE loopFromUpdateFirst(r, "update", 1)
      [] loop = "update" ->
            IF i <= Len(r.update) THEN <<"update", i>>
            ELSE loopFromUpdateFirst(r, "replace", 1)
      [] loop = "replace" ->
            IF i <= Len(r.replace) THEN <<"replace", i>> ELSE <<"return", 1>>

\* the position after element i - 1 of a loop: the loop's element i, or the
\* first element of the next loop that has one, or the return statement
RECURSIVE loopFrom(_, _, _)
loopFrom(r, loop, i) ==
    CASE loop = "delete" ->
            IF i <= Len(r.delete) THEN <<"delete", i>> ELSE loopFrom(r, "replace", 1)
      [] loop = "replace" ->
            IF i <= Len(r.replace) THEN <<"replace", i>> ELSE loopFrom(r, "update", 1)
      [] loop = "update" ->
            IF i <= Len(r.update) THEN <<"update", i>> ELSE <<"return", 1>>

Init ==
    /\ pc = "idle"
    /\ req = NoRequest
    /\ idx = 1
    /\ results = << >>
    /\ notifs = << >>
    /\ ncsCalls = << >>
    /\ resp = NoResponse

\* the RPC server hands a Set request to the handler
RecvSet ==
    /\ pc = "idle"
    /\ \E p \in Prefixes, d \in SeqsUpTo(SetPaths, MaxSetElems) :
         \E r \in SeqsUpTo(SetUpdates, MaxSetElems - Len(d)) :
           \E u \in SeqsUpTo(SetUpdates, MaxSetElems - Len(d) - Len(r)) :
             /\ req' = SetRequest(p, d, r, u)
             /\ pc' = loopFrom(req', "delete", 1)[1]
             /\ idx' = loopFrom(req', "delete", 1)[2]
    /\ results' = << >>
    /\ notifs' = << >>
    /\ ncsCalls' = << >>
    /\ resp' = NoResponse

\* a handler that returns the results collected so far along with the error
ReturnErrorWithPartial(code) ==
    /\ pc' = "done"
    /\ resp' = [code |-> code, response |-> [Prefix |-> req.prefix, Response |-> results]]
    /\ UNCHANGED <<req, idx>>

\* return nil, grpcStatusError
ReturnError(code) ==
    /\ pc' = "done"
    /\ resp' = [code |-> code, response |-> NilResponse]
    /\ UNCHANGED <<req, idx>>

\* a panic in the handler's goroutine ends the process
Crash ==
    /\ pc' = "crashed"
    /\ UNCHANGED <<req, idx, resp>>

\* a handler that issues a failed edit a second time before giving up
executeOperationRetry(op, path, val, loop) ==
    \E ord \in KeyOrders :
      LET t == gnmiToNetconfOperation(op, req.prefix, path, val, ord)
      IN  \/ /\ t.err = "PANIC"
             /\ Crash
             /\ UNCHANGED <<results, notifs, ncsCalls>>
          \/ /\ t.err \notin {"OK", "PANIC"}
             /\ ReturnError(t.err)
             /\ UNCHANGED <<results, notifs, ncsCalls>>
          \/ /\ t.err = "OK"
             /\ \E deviceFails \in BOOLEAN :
                  IF deviceFails
                  THEN /\ ncsCalls' = ncsCalls
                            \o <<EditConfigCfgCall(RunningCfg, t.request, "error"),
                                 EditConfigCfgCall(RunningCfg, t.request, "error")>>
                       /\ ReturnError("Unknown")
                       /\ UNCHANGED <<results, notifs>>
                  ELSE /\ ncsCalls' = Append(ncsCalls,
                                       EditConfigCfgCall(RunningCfg, t.request, "nil"))
                       /\ results' = Append(results, [Path |-> path, Op |-> op])
                       /\ pc' = loopFrom(req, loop, idx + 1)[1]
                       /\ idx' = loopFrom(req, loop, idx + 1)[2]
                       /\ UNCHANGED <<req, notifs, resp>>

executeOperation(op, path, val, loop) ==
    \E ord \in KeyOrders :
      LET t == gnmiToNetconfOperation(op, req.prefix, path, val, ord)
      IN  \/ /\ t.err = "PANIC"
             /\ Crash
             /\ UNCHANGED <<results, notifs, ncsCalls>>
          \/ /\ t.err \notin {"OK", "PANIC"}
             /\ ReturnError(t.err)
             /\ UNCHANGED <<results, notifs, ncsCalls>>
          \/ /\ t.err = "OK"
             /\ \E deviceFails \in BOOLEAN :
                  IF deviceFails
                  THEN /\ ncsCalls' = Append(ncsCalls,
                                       EditConfigCfgCall(RunningCfg, t.request, "error"))
                       /\ ReturnError("Unknown")
                       /\ UNCHANGED <<results, notifs>>
                  ELSE /\ ncsCalls' = Append(ncsCalls,
                                       EditConfigCfgCall(RunningCfg, t.request, "nil"))
                       /\ results' = Append(results, [Path |-> path, Op |-> op])
                       /\ pc' = loopFrom(req, loop, idx + 1)[1]
                       /\ idx' = loopFrom(req, loop, idx + 1)[2]
                       /\ UNCHANGED <<req, notifs, resp>>

SetDelete ==
    /\ pc = "delete"
    /\ executeOperation("DELETE", req.delete[idx], NilValue, "delete")

SetReplace ==
    /\ pc = "replace"
    /\ executeOperation("REPLACE", req.replace[idx].path, req.replace[idx].val, "replace")

SetUpdate ==
    /\ pc = "update"
    /\ executeOperation("UPDATE", req.update[idx].path, req.update[idx].val, "update")

\* a handler that leaves the prefix out of the response
SetReturnNoPrefix ==
    /\ pc = "return"
    /\ req.rpc = "Set"
    /\ pc' = "done"
    /\ resp' = [code |-> "OK", response |-> [Prefix |-> NilPath, Response |-> results]]
    /\ UNCHANGED <<req, idx, results, notifs, ncsCalls>>

SetReturn ==
    /\ pc = "return"
    /\ req.rpc = "Set"
    /\ pc' = "done"
    /\ resp' = [code |-> "OK", response |-> [Prefix |-> req.prefix, Response |-> results]]
    /\ UNCHANGED <<req, idx, results, notifs, ncsCalls>>

\* the response leaves; the handler is ready for the next request
Deliver ==
    /\ pc = "done"
    /\ pc' = "idle"
    /\ req' = NoRequest
    /\ idx' = 1
    /\ results' = << >>
    /\ notifs' = << >>
    /\ ncsCalls' = << >>
    /\ resp' = NoResponse

----------------------------------------------------------------------------
(* get.go: Adapter.Get.  One step per path: processPath blocks on the      *)
(* device session.                                                         *)

\* result is the document the session wrote for the caller, empty on an error
GetConfigSubtreeCall(filter, target, err, result) ==
    [op |-> "GetConfigSubtree", target |-> target, request |-> filter, err |-> err,
     result |-> result]

\* the RPC server hands a Get request to the handler
RecvGet ==
    /\ pc = "idle"
    /\ \E enc \in Encodings, models \in UseModels, p \in Prefixes :
         \E paths \in SeqsUpTo(GetPaths, MaxGetPaths) :
            req' = GetRequest(enc, models, p, paths)
    /\ pc' = "get"
    /\ idx' = 1
    /\ results' = << >>
    /\ notifs' = << >>
    /\ ncsCalls' = << >>
    /\ resp' = NoResponse

\* the encoding and model check, and the default path of a request without paths
GetCheck ==
    /\ pc = "get"
    /\ IF checkEncodingAndModel(req.encoding, req.useModels) # "nil"
       THEN ReturnError("Unimplemented")
       ELSE /\ req' = IF Len(req.path) = 0
                      THEN [req EXCEPT !.path = <<Path(<< >>)>>]
                      ELSE req
            /\ pc' = "path"
            /\ idx' = 1
            /\ resp' = resp
    /\ UNCHANGED <<results, notifs, ncsCalls>>

\* a loop that leaves out a path the schema does not know and goes on
processPathSkipUnknown ==
    /\ pc = "path"
    /\ LET path == req.path[idx]
           prefix == req.prefix
           fullPath == resolveFullPath(prefix, path)
           entry == getSchemaEntryForPath(fullPath)
       IN  IF entry = NilEntry
           THEN /\ idx' = idx + 1
                /\ pc' = IF idx + 1 > Len(req.path) THEN "return" ELSE "path"
                /\ UNCHANGED <<req, resp, notifs, ncsCalls>>
           ELSE \E ord \in KeyOrders, result \in NcResults :
                  LET r == netconfValueToGnmi(entry, result, fullPath, prefix)
                  IN  /\ ncsCalls' = Append(ncsCalls,
                             GetConfigSubtreeCall(pathToNetconfSubtree(fullPath, ord),
                                                  RunningCfg, "nil", result))
                      /\ IF r.err = "PANIC" THEN Crash /\ UNCHANGED notifs
                         ELSE IF r.err # "OK"
                         THEN ReturnError(r.err) /\ UNCHANGED notifs
                         ELSE /\ notifs' = Append(notifs, r.n)
                              /\ idx' = idx + 1
                              /\ pc' = IF idx + 1 > Len(req.path)
                                       THEN "return" ELSE "path"
                              /\ UNCHANGED <<req, resp>>
    /\ UNCHANGED results

\* processPath for path idx of the request
processPath ==
    /\ pc = "path"
    /\ LET path == req.path[idx]
           prefix == req.prefix
           fullPath == resolveFullPath(prefix, path)
           earlier == aliased(notifs, req, path)
           entry == getSchemaEntryForPath(fullPath)
       IN  IF entry = NilEntry
           THEN ReturnError("NotFound") /\ notifs' = earlier /\ UNCHANGED ncsCalls
           ELSE \E ord \in KeyOrders :
                  LET filter == pathToNetconfSubtree(fullPath, ord)
                  IN  \/ /\ ncsCalls' = Append(ncsCalls,
                                GetConfigSubtreeCall(filter, RunningCfg, "error", << >>))
                         /\ ReturnError("Unknown")
                         /\ notifs' = earlier
                      \/ \E result \in NcResults :
                           /\ ncsCalls' = Append(ncsCalls,
                                GetConfigSubtreeCall(filter, RunningCfg, "nil", result))
                           /\ LET r == netconfValueToGnmi(entry, result, fullPath, prefix)
                              IN  IF r.err = "PANIC" THEN Crash /\ notifs' = earlier
                                  ELSE IF r.err # "OK"
                                  THEN ReturnError(r.err) /\ notifs' = earlier
                                  ELSE /\ notifs' = Append(earlier, r.n)
                                       /\ idx' = idx + 1
                                       /\ pc' = IF idx + 1 > Len(req.path)
                                                THEN "return" ELSE "path"
                                       /\ UNCHANGED <<req, resp>>
    /\ UNCHANGED results

GetReturn ==
    /\ pc = "return"
    /\ req.rpc = "Get"
    /\ pc' = "done"
    /\ resp' = [code |-> "OK", response |-> [Notification |-> notifs]]
    /\ UNCHANGED <<req, idx, results, notifs, ncsCalls>>

----------------------------------------------------------------------------
(* Adapter.Capabilities: the models the adapter was built with and the      *)
(* supported encodings (the gNMI version string is left out).  It reads the *)
(* adapter's model and nothing else, and answers in one step.               *)

CapabilityRequest == [rpc |-> "Capabilities"]

CapabilityResponse ==
    [SupportedModels |-> modelData, SupportedEncodings |-> supportedEncodings]

Capabilities ==
    /\ pc = "idle"
    /\ req' = CapabilityRequest
    /\ pc' = "done"
    /\ resp' = [code |-> "OK", response |-> CapabilityResponse]
    /\ UNCHANGED <<idx, results, notifs, ncsCalls>>

Next ==
    \/ Capabilities
    \/ RecvGet
    \/ GetCheck
    \/ processPath
    \/ GetReturn
    \/ RecvSet
    \/ SetDelete
    \/ SetReplace
    \/ SetUpdate
    \/ SetReturn
    \/ Deliver

Spec == Init /\ [][Next]_vars

----------------------------------------------------------------------------
(* Get requests whose prefix comes in a slice with or without room for one  *)
(* more element, as a slice grown by appending its three elements has.      *)

PInterfacePrefix ==
    PConfiguration \o <<PathElem("interfaces"),
                        PathElemKey("interface", "name" :> "0/3/1")>>

SparePrefixes == {PathWithCap(PInterfacePrefix, 3), PathWithCap(PInterfacePrefix, 4)}

SparePaths ==
    {Path(<<PathElem("name")>>), Path(<<PathElem("otn-options")>>),
     Path(<<PathElem("otn-options"), PathElem("rate")>>)}

\* the RPC server hands the handler a Get request with such a prefix
RecvGetSpare ==
    /\ pc = "idle"
    /\ \E p \in SparePrefixes :
         \E paths \in SeqsUpTo(SparePaths, MaxGetPaths) \ {<< >>} :
            req' = GetRequest("JSON", << >>, p, paths)
    /\ pc' = "get"
    /\ idx' = 1
    /\ results' = << >>
    /\ notifs' = << >>
    /\ ncsCalls' = << >>
    /\ resp' = NoResponse

SpareNext ==
    \/ RecvGetSpare
    \/ GetCheck
    \/ processPath
    \/ GetReturn
    \/ Deliver

SpareSpec == Init /\ [][SpareNext]_vars

----------------------------------------------------------------------------
(* The coercion of a leaf's text, function by function: each behaviour is   *)
(* one call of getLeafValue, getUnionValue, isValidString or fixYangRegexp  *)
(* on arguments drawn from the sets below.  req holds the call, resp what   *)
(* it returned.                                                             *)

\* patterns are drawn up to this length
MaxPatternLen == 3

PatternChars == {"a", "^", "$", "\\", "["}

\* character data as the device writes it
LeafTexts == {"aa", "b", " 64 ", "-5", "2147483647"}

\* XSD patterns: a*, .*, b, and two that regexp.Compile refuses
PatternSamples == {<<"a", "*">>, <<".", "*">>, <<"b">>, <<"(">>, <<"*">>}

StringTypes == {StringType(ps) : ps \in SeqsUpTo(PatternSamples, 2)}

UnionAlternatives ==
    { StringType(<< >>), StringType(<< <<"a", "*">> >>), StringType(<< <<"(">> >>),
      Int32Type(<<YRange(0, 100)>>), Int32Type(<<YRange(-10, 10)>>),
      Int32Type(<<YRange(0, 10), YRange(60, 70)>>) }

UnionTypes == SeqsUpTo(UnionAlternatives, 2)

LeafKinds == {"string", "uint32", "enum", "int32"}

LeafCalls ==
    {[fn |-> "getLeafValue", v |-> v, schema |-> LeafEntry("leaf", k)] :
        v \in LeafTexts, k \in LeafKinds}
    \cup {[fn |-> "getLeafValue", v |-> v, schema |-> UnionEntry("leaf", ts)] :
             v \in LeafTexts, ts \in UnionTypes}
    \cup {[fn |-> "getUnionValue", v |-> TrimSpace(v), types |-> ts] :
             v \in LeafTexts, ts \in UnionTypes}
    \cup {[fn |-> "isValidString", v |-> TrimSpace(v), t |-> st] :
             v \in LeafTexts, st \in StringTypes}
    \cup {[fn |-> "fixYangRegexp", pattern |-> q] :
             q \in SeqsUpTo(PatternChars, MaxPatternLen)}

LeafInit ==
    /\ pc = "call"
    /\ req \in LeafCalls
    /\ idx = 1
    /\ results = << >>
    /\ notifs = << >>
    /\ ncsCalls = << >>
    /\ resp = NoResponse

CallGetLeafValue ==
    /\ pc = "call" /\ req.fn = "getLeafValue"
    /\ resp' = getLeafValue(req.v, req.schema)
    /\ pc' = "returned"
    /\ UNCHANGED <<req, idx, results, notifs, ncsCalls>>

CallGetUnionValue ==
    /\ pc = "call" /\ req.fn = "getUnionValue"
    /\ resp' = getUnionValue(req.v, req.types)
    /\ pc' = "returned"
    /\ UNCHANGED <<req, idx, results, notifs, ncsCalls>>

CallIsValidString ==
    /\ pc = "call" /\ req.fn = "isValidString"
    /\ resp' = isValidString(req.v, req.t)
    /\ pc' = "returned"
    /\ UNCHANGED <<req, idx, results, notifs, ncsCalls>>

CallFixYangRegexp ==
    /\ pc = "call" /\ req.fn = "fixYangRegexp"
    /\ resp' = fixYangRegexp(req.pattern)
    /\ pc' = "returned"
    /\ UNCHANGED <<req, idx, results, notifs, ncsCalls>>

LeafNext ==
    \/ CallGetLeafValue
    \/ CallGetUnionValue
    \/ CallIsValidString
    \/ CallFixYangRegexp

LeafSpec == LeafInit /\ [][LeafNext]_vars

----------------------------------------------------------------------------
(* Two Set requests served at once: the RPC server runs each handler in a   *)
(* goroutine of its own, and both call the one session a.ncs.  pc, req,     *)
(* idx, results and resp hold one value per handler; ncsCalls is the order  *)
(* in which the calls reach the session, each with the handler it is from.  *)
(* A handler waits inside a.ncs.EditConfigCfg for the device's reply; the   *)
(* other handler runs meanwhile.                                            *)

Handlers == {1, 2}

ConcRequests ==
    { SetRequest(NilPath, <<Path(PConfiguration \o PVersion)>>,
                 <<Update(Path(PConfiguration),
                          JsonVal(JObj("version" :> JStr("XVZ"))))>>,
                 <<Update(Path(PConfiguration \o PVersion), StringVal("ABC"))>>),
      SetRequest(NilPath, <<Path(PConfiguration \o PInterface),
                            Path(PConfiguration \o PVersion)>>, << >>, << >>),
      SetRequest(NilPath, <<Path(PConfiguration \o PVersion), Path(PBogus)>>,
                 << >>, << >>),
      SetRequest(NilPath, << >>,
                 <<Update(Path(PConfiguration \o PVersion), StringVal("ABC"))>>,
                 <<Update(Path(PConfiguration), JsonVal(JNum(64)))>>) }

\* the element a handler is at
elemAt(r, loop, i) ==
    CASE loop = "delete" -> [op |-> "DELETE", path |-> r.delete[i], val |-> NilValue]
      [] loop = "replace" ->
           [op |-> "REPLACE", path |-> r.replace[i].path, val |-> r.replace[i].val]
      [] loop = "update" ->
           [op |-> "UPDATE", path |-> r.update[i].path, val |-> r.update[i].val]

ConcInit ==
    /\ pc = [h \in Handlers |-> "idle"]
    /\ req = [h \in Handlers |-> NoRequest]
    /\ idx = [h \in Handlers |-> 1]
    /\ results = [h \in Handlers |-> << >>]
    /\ notifs = << >>
    /\ ncsCalls = << >>
    /\ resp = [h \in Handlers |-> NoResponse]

\* the RPC server hands a Set request to handler h
ConcRecvSet(h) ==
    /\ pc[h] = "idle"
    /\ \E r \in ConcRequests :
         /\ req' = [req EXCEPT ![h] = r]
         /\ pc' = [pc EXCEPT ![h] = loopFrom(r, "delete", 1)[1]]
         /\ idx' = [idx EXCEPT ![h] = loopFrom(r, "delete", 1)[2]]
    /\ UNCHANGED <<results, notifs, ncsCalls, resp>>

\* a handler's position while it waits inside the call made from a loop of
\* Set
InEditConfigCfg ==
    [delete |-> "delete.EditConfigCfg", replace |-> "replace.EditConfigCfg",
     update |-> "update.EditConfigCfg"]

\* executeOperation up to the call of the session, for the element handler h
\* is at: the translation, then the edit-config is handed to the session and
\* the handler waits.  A panic ends the process and with it every handler.
executeOperationOf(h) ==
    /\ LET e == elemAt(req[h], pc[h], idx[h])
       IN  \E ord \in KeyOrders :
             LET t == gnmiToNetconfOperation(e.op, req[h].prefix, e.path, e.val, ord)
             IN  \/ /\ t.err = "PANIC"
                    /\ pc' = [g \in Handlers |-> "crashed"]
                    /\ UNCHANGED <<ncsCalls, resp>>
                 \/ /\ t.err \notin {"OK", "PANIC"}
                    /\ pc' = [pc EXCEPT ![h] = "done"]
                    /\ resp' = [resp EXCEPT
                                  ![h] = [code |-> t.err, response |-> NilResponse]]
                    /\ UNCHANGED ncsCalls
                 \/ /\ t.err = "OK"
                    /\ ncsCalls' = Append(ncsCalls,
                           [handler |-> h,
                            call |-> EditConfigCfgCall(RunningCfg, t.request, "pending")])
                    /\ pc' = [pc EXCEPT ![h] = InEditConfigCfg[pc[h]]]
                    /\ UNCHANGED resp
    /\ UNCHANGED <<req, idx, results, notifs>>

\* a handler that goes on only while no other handler is inside a request
ConcExecuteLocked(h) ==
    /\ pc[h] \in DOMAIN InEditConfigCfg
    /\ \A g \in Handlers \ {h} :
         /\ pc[g] \notin DOMAIN InEditConfigCfg \cup {"return"}
         /\ \A l \in DOMAIN InEditConfigCfg : pc[g] # InEditConfigCfg[l]
    /\ executeOperationOf(h)

\* one iteration of a loop of Set in handler h, up to the call of the session
ConcExecute(h) ==
    /\ pc[h] \in DOMAIN InEditConfigCfg
    /\ executeOperationOf(h)

\* EditConfigCfg returns in handler h, which waited for the answer to its
\* last call: on an error executeOperation and Set return Unknown; otherwise
\* Set appends the UpdateResult and goes on with the next element
ConcEditReturn(h) ==
    /\ \E loop \in DOMAIN InEditConfigCfg, deviceFails \in BOOLEAN :
         LET k == CHOOSE n \in 1..Len(ncsCalls) :
                    /\ ncsCalls[n].handler = h
                    /\ \A l \in (n + 1)..Len(ncsCalls) : ncsCalls[l].handler # h
             e == elemAt(req[h], loop, idx[h])
         IN  /\ pc[h] = InEditConfigCfg[loop]
             /\ IF deviceFails
                THEN /\ ncsCalls' = [ncsCalls EXCEPT ![k].call.err = "error"]
                     /\ pc' = [pc EXCEPT ![h] = "done"]
                     /\ resp' = [resp EXCEPT ![h] =
                                   [code |-> "Unknown", response |-> NilResponse]]
                     /\ UNCHANGED <<idx, results>>
                ELSE /\ ncsCalls' = [ncsCalls EXCEPT ![k].call.err = "nil"]
                     /\ results' = [results EXCEPT
                           ![h] = Append(@, [Path |-> e.path, Op |-> e.op])]
                     /\ pc' = [pc EXCEPT ![h] = loopFrom(req[h], loop, idx[h] + 1)[1]]
                     /\ idx' = [idx EXCEPT ![h] = loopFrom(req[h], loop, idx[h] + 1)[2]]
                     /\ UNCHANGED resp
    /\ UNCHANGED <<req, notifs>>

ConcSetReturn(h) ==
    /\ pc[h] = "return"
    /\ pc' = [pc EXCEPT ![h] = "done"]
    /\ resp' = [resp EXCEPT ![h] = [code |-> "OK",
                   response |-> [Prefix |-> req[h].prefix, Response |-> results[h]]]]
    /\ UNCHANGED <<req, idx, results, notifs, ncsCalls>>

ConcNext ==
    \/ \E h \in Handlers : ConcRecvSet(h)
    \/ \E h \in Handlers : ConcExecute(h)
    \/ \E h \in Handlers : ConcEditReturn(h)
    \/ \E h \in Handlers : ConcSetReturn(h)

ConcSpec == ConcInit /\ [][ConcNext]_vars

----------------------------------------------------------------------------
(* Properties of Set. *)

\* the elements of a Set request in the order gNMI prescribes
DeleteElems(r) == [i \in 1..Len(r.delete) |->
                     [op |-> "DELETE", path |-> r.delete[i], val |-> NilValue]]
ReplaceElems(r) == [i \in 1..Len(r.replace) |->
                     [op |-> "REPLACE", path |-> r.replace[i].path, val |-> r.replace[i].val]]
UpdateElems(r) == [i \in 1..Len(r.update) |->
                     [op |-> "UPDATE", path |-> r.update[i].path, val |-> r.update[i].val]]
SetElems(r) == DeleteElems(r) \o ReplaceElems(r) \o UpdateElems(r)

\* call c is the edit of element e of request r, for some traversal of its keys
IsEditOf(c, r, e) ==
    /\ c.op = "EditConfigCfg"
    /\ \E ord \in KeyOrders :
         LET t == gnmiToNetconfOperation(e.op, r.prefix, e.path, e.val, ord)
         IN  t.err = "OK" /\ c.request = t.request

\* the first n calls are the edits of the first n elements, one each, in order
EditsOfFirst(n) ==
    /\ n <= Len(SetElems(req))
    /\ \A i \in 1..n : IsEditOf(ncsCalls[i], req, SetElems(req)[i])

InSet == req.rpc = "Set"
SetDone == InSet /\ pc = "done"
SetSucceeded == SetDone /\ resp.code = "OK"
SetFailed == SetDone /\ resp.code # "OK"

\* C1: at every moment of a Set the edits issued so far are those of the
\* first elements of delete ++ replace ++ update, one per element and in
\* that order; a Set that succeeds has issued one for every element.
C1_EditsInListOrder ==
    InSet => /\ EditsOfFirst(Len(ncsCalls))
             /\ (SetSucceeded => Len(ncsCalls) = Len(SetElems(req)))

\* a Set with a delete, a replace and an update has issued the three edits
C1_Witness ==
    /\ SetSucceeded
    /\ Len(req.delete) >= 1 /\ Len(req.replace) >= 1 /\ Len(req.update) >= 1
    /\ Len(ncsCalls) = 3

\* the element whose processing ended a failed Set
FailedAt == Len(results) + 1

\* C2: a Set that fails at element k returns k's error and a nil response;
\* the edits issued are those of the elements before k, once each and in
\* order, followed at most by k's own edit when it is the device that failed.
C2_AbortAtFirstError ==
    SetFailed =>
      LET k == FailedAt
          e == SetElems(req)[k]
      IN  /\ k <= Len(SetElems(req))
          /\ resp.response = NilResponse
          /\ EditsOfFirst(k - 1)
          /\ \E ord \in KeyOrders :
               LET t == gnmiToNetconfOperation(e.op, req.prefix, e.path, e.val, ord)
               IN  \/ /\ t.err \in {"NotFound", "Unknown"}
                      /\ resp.code = t.err
                      /\ Len(ncsCalls) = k - 1
                   \/ /\ t.err = "OK"
                      /\ resp.code = "Unknown"
                      /\ Len(ncsCalls) = k
                      /\ IsEditOf(ncsCalls[k], req, e)

\* a Set of three elements failed at the second: one edit was issued before
C2_Witness ==
    /\ SetFailed
    /\ Len(SetElems(req)) = 3
    /\ FailedAt = 2
    /\ Len(ncsCalls) = 1
    /\ resp.code = "NotFound"

\* C3: a Set that succeeds has made one EditConfigCfg call per element, on
\* the running datastore, the i-th carrying the document of the i-th element
\* alone; no call of a Set is anything but an EditConfigCfg.
C3_OneEditPerElement ==
    InSet =>
      /\ \A i \in 1..Len(ncsCalls) :
           ncsCalls[i].op = "EditConfigCfg" /\ ncsCalls[i].target = "running"
      /\ (SetSucceeded =>
            /\ Len(ncsCalls) = Len(req.delete) + Len(req.replace) + Len(req.update)
            /\ \A i \in 1..Len(ncsCalls) : IsEditOf(ncsCalls[i], req, SetElems(req)[i]))

\* a Set of three elements succeeded
C3_Witness ==
    /\ SetSucceeded
    /\ Len(req.delete) + Len(req.replace) + Len(req.update) = 3
    /\ Len(ncsCalls) = 3

\* C4: the response of a Set that succeeds carries the request's prefix and
\* one UpdateResult per element in processing order, with the element's own
\* path and operation.
C4_SetResponse ==
    SetSucceeded =>
      /\ resp.response.Prefix = req.prefix
      /\ Len(resp.response.Response) = Len(SetElems(req))
      /\ \A i \in 1..Len(SetElems(req)) :
           /\ resp.response.Response[i].Path = SetElems(req)[i].path
           /\ resp.response.Response[i].Op = SetElems(req)[i].op

\* a Set with a prefix and elements of two kinds succeeded
C4_Witness ==
    /\ SetSucceeded
    /\ ~req.prefix.isNil /\ req.prefix.Elem # << >>
    /\ Len(req.delete) >= 1 /\ Len(req.update) >= 1
    /\ Len(resp.response.Response) >= 2

----------------------------------------------------------------------------
(* Properties of the edit-config document. *)

\* the prefix's elements followed by the path's elements
EffectivePath(prefix, path) == Path(GetElem(prefix) \o path.Elem)

OperationName(op) ==
    CASE op = "DELETE" -> "delete" [] op = "REPLACE" -> "replace" [] op = "UPDATE" -> "merge"

\* nesting depth of the start element at position j of a document
DepthAt(doc, j) ==
    Cardinality({i \in 1..j : doc[i].t = "start"})
      - Cardinality({i \in 1..j : doc[i].t = "end"})

\* the positions of a document that carry an operation attribute
OperationAttrs(doc) == {j \in 1..Len(doc) : doc[j].t = "start" /\ doc[j].attr # ""}

\* the document carries the attribute once, on the element of the last step
\* of full path fp, with the name of operation op
OperationOnTerminalStep(doc, fp, op) ==
    /\ Cardinality(OperationAttrs(doc)) = 1
    /\ Len(fp.Elem) >= 1
    /\ \A j \in OperationAttrs(doc) :
         /\ doc[j].name = fp.Elem[Len(fp.Elem)].Name
         /\ DepthAt(doc, j) = Len(fp.Elem)
         /\ doc[j].attr = OperationName(op)

\* C5: every edit a Set issues carries the operation attribute exactly once,
\* on the element of the terminal step of prefix ++ path, with the value of
\* the element's operation.
C5_OperationAttributeOnce ==
    InSet =>
      \A i \in 1..Len(ncsCalls) :
        LET e == SetElems(req)[i]
        IN  OperationOnTerminalStep(ncsCalls[i].request.tokens,
                                    EffectivePath(req.prefix, e.path), e.op)

\* C6: every edit issued under a prefix is the document Set issues for the
\* same element with no prefix and the path prefix ++ path, and an element
\* is accepted or refused with the same code as that one.
C6_PrefixComposition ==
    InSet =>
      LET plain(e, ord) ==
            gnmiToNetconfOperation(e.op, NilPath, EffectivePath(req.prefix, e.path),
                                   e.val, ord)
      IN  /\ \A i \in 1..Len(ncsCalls) :
               \E ord \in KeyOrders :
                 /\ plain(SetElems(req)[i], ord).err = "OK"
                 /\ plain(SetElems(req)[i], ord).request = ncsCalls[i].request
          /\ (SetFailed /\ Len(ncsCalls) < FailedAt =>
                \E ord \in KeyOrders :
                  plain(SetElems(req)[FailedAt], ord).err = resp.code)

----------------------------------------------------------------------------
(* Properties of Get and of the schema check. *)

InGet == req.rpc = "Get"
GetDone == InGet /\ pc = "done"

\* every name of elems is a child of the entry reached by the names before it
RECURSIVE KnownPath(_, _)
KnownPath(entry, elems) ==
    \/ elems = << >>
    \/ /\ Head(elems).Name \in DOMAIN entry.Dir
       /\ KnownPath(entry.Dir[Head(elems).Name], Tail(elems))

\* C7: the filter of the i-th call of a Get is the subtree filter of
\* prefix ++ path i, and the schema lookup that admits or refuses a path is
\* the lookup of prefix ++ path.
C7_GetEffectivePath ==
    InGet /\ pc \in {"path", "return", "done", "crashed"} =>
      /\ \A i \in 1..Len(ncsCalls) :
           LET fp == EffectivePath(req.prefix, req.path[i])
           IN  \E ord \in KeyOrders :
                 ncsCalls[i].request = pathToNetconfSubtree(fp, ord)
      /\ \A i \in 1..Len(ncsCalls) :
           KnownPath(schemaTreeRoot, EffectivePath(req.prefix, req.path[i]).Elem)
      /\ (GetDone /\ resp.code = "NotFound" /\ Len(ncsCalls) = Len(notifs) =>
            ~KnownPath(schemaTreeRoot,
                       EffectivePath(req.prefix, req.path[Len(notifs) + 1]).Elem))

\* the request names an encoding, or a model, the adapter does not support
Unsupported(r) ==
    \/ r.encoding # "JSON"
    \/ \E i \in 1..Len(r.useModels) :
         \A j \in 1..Len(modelData) : r.useModels[i] # modelData[j]

\* a path or element whose full path, as full(prefix, path) gives it, the
\* schema does not know gets no device call and no result, and the request
\* ends NotFound on it (a Get, once its encoding and models are accepted)
UnknownPathRefused(full(_, _)) ==
    LET unknown(path) == ~KnownPath(schemaTreeRoot, full(req.prefix, path).Elem)
    IN  /\ InSet =>
             /\ \A i \in 1..Len(ncsCalls) : ~unknown(SetElems(req)[i].path)
             /\ \A i \in 1..Len(results) : ~unknown(SetElems(req)[i].path)
             /\ (pc \in {"done", "crashed"} /\ FailedAt <= Len(SetElems(req))
                   /\ unknown(SetElems(req)[FailedAt].path)
                 => /\ pc = "done" /\ resp.code = "NotFound"
                    /\ Len(ncsCalls) = FailedAt - 1)
        /\ InGet /\ pc \in {"path", "return", "done", "crashed"} /\ ~Unsupported(req) =>
             /\ \A i \in 1..Len(ncsCalls) : ~unknown(req.path[i])
             /\ \A i \in 1..Len(notifs) : ~unknown(req.path[i])
             /\ (pc \in {"done", "crashed"} /\ Len(notifs) < Len(req.path)
                   /\ unknown(req.path[Len(notifs) + 1])
                 => /\ pc = "done" /\ resp.code = "NotFound"
                    /\ Len(ncsCalls) = Len(notifs))

\* C8: a Get path or Set element whose full path (the prefix's elements
\* followed by the path's) has a step that is not a child of the schema entry
\* of the step before it fails NotFound, and no device call is made for it.
C8_UnknownPathNoDeviceCall == UnknownPathRefused(EffectivePath)

\* the same, for the full path the handlers resolve: it differs from the
\* above only where gnmiFullPath drops the prefix of a path with no elements
ResolvedUnknownPathRefused == UnknownPathRefused(resolveFullPath)

\* a Set refused its second element for its path, after one edit, and a Get
\* refused its second path, after one get-config
ResolvedUnknownPathWitness ==
    \/ /\ SetFailed /\ resp.code = "NotFound" /\ FailedAt = 2 /\ Len(ncsCalls) = 1
       /\ ~KnownPath(schemaTreeRoot,
                     resolveFullPath(req.prefix, SetElems(req)[2].path).Elem)
    \/ /\ GetDone /\ resp.code = "NotFound" /\ Len(notifs) = 1 /\ Len(ncsCalls) = 1
       /\ ~KnownPath(schemaTreeRoot, resolveFullPath(req.prefix, req.path[2]).Elem)

\* C9: a Get with an encoding other than JSON, or with a use_models entry
\* that equals none of the adapter's models, ends Unimplemented with no
\* response, no path examined and no device call; a Get with JSON and no
\* use_models passes the check.
C9_EncodingAndModelCheck ==
    InGet /\ pc # "get" =>
      /\ Unsupported(req) =>
           /\ pc = "done" /\ resp.code = "Unimplemented"
           /\ resp.response = NilResponse
           /\ ncsCalls = << >> /\ notifs = << >> /\ idx = 1
      /\ req.encoding = "JSON" /\ req.useModels = << >> =>
           resp.code # "Unimplemented"
      /\ resp.code = "Unimplemented" => Unsupported(req)

\* a JSON Get naming a model of a version the adapter does not have, for a
\* path the schema does not know, ended Unimplemented
C9_Witness ==
    /\ GetDone /\ resp.code = "Unimplemented"
    /\ req.encoding = "JSON"
    /\ Len(req.useModels) = 2
    /\ Len(req.path) >= 1 /\ req.path[1] = Path(PBogus)

\* C10: a device-session call that returned an error is the last call of
\* its request (it is not issued again), and the request ended Unknown with
\* no response.
C10_DeviceErrorIsUnknown ==
    \A i \in 1..Len(ncsCalls) :
      ncsCalls[i].err = "error" =>
        /\ i = Len(ncsCalls)
        /\ pc = "done"
        /\ resp.code = "Unknown"
        /\ resp.response = NilResponse

\* the device failed the second edit of a Set, or the second get-config of a Get
C10_Witness ==
    /\ pc = "done"
    /\ Len(ncsCalls) = 2
    /\ ncsCalls[1].err = "nil" /\ ncsCalls[2].err = "error"

----------------------------------------------------------------------------
(* Properties of the Get response. *)

GetSucceeded == GetDone /\ resp.code = "OK"
GetFailed == GetDone /\ resp.code \notin {"OK", "Unimplemented"}

\* C11: a successful Get over n >= 1 paths made exactly n GetConfigSubtree
\* calls on the running datastore, the i-th with the filter of path i, and
\* returns n notifications, the i-th built from the i-th call's result for
\* path i, each with the request's prefix and exactly one update.
C11_OneCallAndNotificationPerPath ==
    GetSucceeded =>
      LET n == Len(req.path)
          out == resp.response.Notification
      IN  /\ n >= 1
          /\ Len(ncsCalls) = n
          /\ Len(out) = n
          /\ \A i \in 1..n :
               LET full == resolveFullPath(req.prefix, req.path[i])
               IN  /\ ncsCalls[i].op = "GetConfigSubtree"
                   /\ ncsCalls[i].target = "running"
                   /\ ncsCalls[i].err = "nil"
                   /\ \E ord \in KeyOrders :
                        ncsCalls[i].request = pathToNetconfSubtree(full, ord)
                   /\ out[i].Prefix = req.prefix
                   /\ Len(out[i].Update) = 1
                   /\ out[i].Update[1].Path = full
                   /\ out[i] = netconfValueToGnmi(getSchemaEntryForPath(full),
                                   ncsCalls[i].result, full, req.prefix).n

\* a Get with prefix [configuration] over two different paths succeeded
C11_Witness ==
    /\ GetSucceeded
    /\ req.prefix = Path(PConfiguration)
    /\ Len(req.path) = 2 /\ req.path[1] # req.path[2]
    /\ req.path[1].Elem # << >> /\ req.path[2].Elem # << >>

\* the path list the handler gives a request that lists no paths
DefaultPaths == <<Path(<< >>)>>

\* C12: a Get that lists no paths goes on as a Get of one path with no
\* elements; once its encoding and models are accepted it makes exactly one
\* GetConfigSubtree call, with a nil filter, and when it succeeds it returns
\* exactly one notification, whose value is the JSON value of the whole tree
\* decoded from the device's answer.
C12_NoPathsIsWholeTree ==
    /\ [][InGet /\ pc = "get" /\ req.path = << >> /\ pc' = "path"
            => req'.path = DefaultPaths /\ ncsCalls' = << >> /\ notifs' = << >>]_vars
    /\ [](InGet /\ req.path = DefaultPaths =>
            /\ Len(ncsCalls) <= 1
            /\ \A i \in 1..Len(ncsCalls) :
                 /\ ncsCalls[i].op = "GetConfigSubtree"
                 /\ ncsCalls[i].request.isNil
            /\ (pc \in {"return", "done"} /\ ~Unsupported(req) => Len(ncsCalls) = 1)
            /\ (GetSucceeded =>
                  LET out == resp.response.Notification
                  IN  /\ Len(out) = 1
                      /\ Len(out[1].Update) = 1
                      /\ out[1].Update[1].Val
                           = JsonVal(netconfXMLtoMap(ncsCalls[1].result))))

\* a Get with the default path list and no prefix returned the whole tree of
\* a device answer that is not empty
C12_Witness ==
    /\ GetSucceeded
    /\ req.path = DefaultPaths
    /\ req.prefix = NilPath
    /\ ncsCalls[1].result # << >>
    /\ "configuration" \in DOMAIN resp.response.Notification[1].Update[1].Val.json.m

\* C13: a Get in which the processing of path k failed returns that error
\* (NotFound, Unknown or Internal) and nothing else: no response, hence no
\* notification for any path; the paths before k each had their call, path k
\* at most one, and no path after k any.  A Get succeeds only when every one
\* of its paths was processed.
C13_GetAbortsAtFirstError ==
    /\ InGet /\ resp.code # "none" => pc = "done"
    /\ GetFailed =>
         LET k == Len(notifs) + 1
         IN  /\ resp.code \in {"NotFound", "Unknown", "Internal"}
             /\ resp.response = NilResponse
             /\ k <= Len(req.path)
             /\ Len(ncsCalls) \in {k - 1, k}
             /\ \A i \in 1..(k - 1) : ncsCalls[i].err = "nil"
             /\ Len(ncsCalls) = k =>
                  \/ ncsCalls[k].err = "error" /\ resp.code = "Unknown"
                  \/ ncsCalls[k].err = "nil" /\ resp.code \in {"NotFound", "Internal"}
    /\ GetSucceeded =>
         /\ Len(resp.response.Notification) = Len(req.path)
         /\ \A i \in 1..Len(req.path) :
              KnownPath(schemaTreeRoot, resolveFullPath(req.prefix, req.path[i]).Elem)

\* the first of two paths failed, on the schema lookup or at the device, and
\* the second got no call
C13_Witness ==
    /\ GetFailed
    /\ Len(req.path) = 2
    /\ Len(notifs) = 0
    /\ Len(ncsCalls) <= 1
    /\ KnownPath(schemaTreeRoot, resolveFullPath(req.prefix, req.path[2]).Elem)

----------------------------------------------------------------------------
(* Properties of the generated XML. *)

\* the order of the key names the model draws
KeyNameBefore(a, b) == a = "name" /\ b = "unit"

\* position i of doc starts an element that holds a text and nothing else
IsTextElement(doc, i) ==
    /\ i + 2 <= Len(doc)
    /\ doc[i].t = "start" /\ doc[i + 1].t = "chars" /\ doc[i + 2].t = "end"
    /\ doc[i + 2].name = doc[i].name

\* no key element is directly followed by the element of a smaller key name
KeysAscending(doc) ==
    \A i \in 1..Len(doc) :
      IsTextElement(doc, i) /\ IsTextElement(doc, i + 3)
        => ~KeyNameBefore(doc[i + 3].name, doc[i].name)

\* C14: in every subtree filter of a Get and every edit payload of a Set, the
\* key elements of a path step that carries two or more keys come in
\* ascending order of key name.
C14_KeysInAscendingOrder ==
    \A i \in 1..Len(ncsCalls) : KeysAscending(ncsCalls[i].request.tokens)

\* every end element closes the element opened last, texts lie inside an
\* element, and nothing stays open
RECURSIVE NestedFrom(_, _, _)
NestedFrom(doc, i, open) ==
    IF i > Len(doc) THEN open = << >>
    ELSE CASE doc[i].t = "start" -> NestedFrom(doc, i + 1, Append(open, doc[i].name))
           [] doc[i].t = "chars" -> open # << >> /\ NestedFrom(doc, i + 1, open)
           [] doc[i].t = "end" ->
                /\ open # << >>
                /\ open[Len(open)] = doc[i].name
                /\ NestedFrom(doc, i + 1, SubSeq(open, 1, Len(open) - 1))

WellNested(doc) == NestedFrom(doc, 1, << >>)

\* the start elements of doc that lie d deep (the outermost is 1 deep)
StartsAt(doc, d) == {j \in 1..Len(doc) : doc[j].t = "start" /\ DepthAt(doc, j) = d}

Last(S) == CHOOSE j \in S : \A k \in S : k <= j

\* the elements at positions S of doc are the key elements of key map key:
\* one text element per key, named after it and holding its value
AreKeyElements(doc, S, key) ==
    /\ \A j \in S : /\ IsTextElement(doc, j)
                    /\ doc[j].name \in DOMAIN key
                    /\ doc[j + 1].text = key[doc[j].name]
    /\ \A k \in DOMAIN key : Cardinality({j \in S : doc[j].name = k}) = 1

\* doc mirrors the steps elems: step d is the last element d deep, after the
\* key elements of step d - 1; the keys of the last step are its only children
MirrorsPath(doc, elems) ==
    LET n == Len(elems)
    IN  /\ WellNested(doc)
        /\ \A d \in 1..n :
             /\ StartsAt(doc, d) # {}
             /\ doc[Last(StartsAt(doc, d))].name = elems[d].Name
             /\ AreKeyElements(doc, StartsAt(doc, d) \ {Last(StartsAt(doc, d))},
                               IF d = 1 THEN << >> ELSE elems[d - 1].Key)
             /\ d > 1 => Last(StartsAt(doc, d - 1)) < Last(StartsAt(doc, d))
        /\ AreKeyElements(doc, StartsAt(doc, n + 1), elems[n].Key)
        /\ \A j \in 1..Len(doc) : doc[j].t = "start" => DepthAt(doc, j) <= n + 1
        /\ \A k \in 1..n : doc[Len(doc) - k + 1] = EndElement(elems[k].Name)

\* C15: the subtree filter of every Get path with at least one step is a
\* well-nested document with one element per step, nested in path order and
\* closed in reverse order, the key elements of a step being children of the
\* step's element that come before the element of the next step.
C15_FilterMirrorsPath ==
    InGet =>
      \A i \in 1..Len(ncsCalls) :
        LET full == resolveFullPath(req.prefix, req.path[i])
        IN  IF full.Elem = << >> THEN ncsCalls[i].request.isNil
            ELSE /\ ~ncsCalls[i].request.isNil
                 /\ MirrorsPath(ncsCalls[i].request.tokens, full.Elem)
                 /\ ncsCalls[i].request.xml = XmlString(ncsCalls[i].request.tokens)

\* a filter was sent for a path of five steps whose third step carries a key
C15_Witness ==
    /\ InGet /\ Len(ncsCalls) >= 1
    /\ resolveFullPath(req.prefix, req.path[1]) = Path(PConfiguration \o PRate)
    /\ Len(ncsCalls[1].request.tokens) = 13

\* Go's order on strings, for the names of the JSON values the model draws:
\* a comes before b
NameRank ==
    "configuration" :> 1 @@ "interface" :> 2 @@ "interfaces" :> 3
      @@ "laser-enable" :> 4 @@ "name" :> 5 @@ "otn-options" :> 6
      @@ "rate" :> 7 @@ "system" :> 8 @@ "version" :> 9
NameBefore(a, b) == NameRank[a] < NameRank[b]

\* the first position of doc after the elements that mapPathToNetconf wrote
\* for the steps elems and their keys
BodyStart(elems) ==
    LET keys(d) == Cardinality(DOMAIN elems[d].Key)
        RECURSIVE sum(_)
        sum(d) == IF d = 0 THEN 0 ELSE 1 + 3 * keys(d) + sum(d - 1)
    IN  1 + sum(Len(elems))

\* the children of object m, as doc[from..to] holds them: one element per key
\* of m, in ascending order of the names, an object's element holding that
\* object's children in the same way and any other a text
RECURSIVE ChildrenSorted(_, _, _, _)
ChildrenSorted(doc, from, to, m) ==
    LET tops == {j \in from..to : doc[j].t = "start"
                                   /\ DepthAt(doc, j) = DepthAt(doc, from)}
        close(j) == CHOOSE k \in j..to :
                      /\ doc[k].t = "end" /\ DepthAt(doc, k) = DepthAt(doc, j) - 1
                      /\ \A x \in j..(k - 1) : DepthAt(doc, x) >= DepthAt(doc, j)
    IN  IF from > to THEN DOMAIN m = {}
        ELSE /\ doc[from].t = "start"
             /\ {doc[j].name : j \in tops} = DOMAIN m
             /\ Cardinality(tops) = Cardinality(DOMAIN m)
             /\ \A i, j \in tops : i < j => NameBefore(doc[i].name, doc[j].name)
             /\ \A j \in tops :
                  IF m[doc[j].name].j = "object"
                  THEN ChildrenSorted(doc, j + 1, close(j) - 1, m[doc[j].name].m)
                  ELSE close(j) = j + 2 /\ doc[j + 1].t = "chars"

\* C16: the body of the edit payload for a JSON object lists the object's
\* members as sibling elements in ascending order of their names, at every
\* depth of nesting.
C16_JsonSiblingsSorted ==
    InSet =>
      \A i \in 1..Len(ncsCalls) :
        LET e == SetElems(req)[i]
            full == resolveFullPath(req.prefix, e.path)
            doc == ncsCalls[i].request.tokens
        IN  e.op # "DELETE" /\ e.val.kind = "json" /\ e.val.json.j = "object"
              => ChildrenSorted(doc, BodyStart(full.Elem), Len(doc) - Len(full.Elem),
                                e.val.json.m)

\* an edit was sent for the object with members at four depths, two of them
\* with two members written in the other order in the request
C16_Witness ==
    /\ InSet
    /\ \E i \in 1..Len(ncsCalls) :
         /\ SetElems(req)[i].val = JsonVal(ConfigurationObj)
         /\ SetElems(req)[i].op = "REPLACE"
         /\ ncsCalls[i].request.xml =
              "<configuration operation=\"replace\"><interfaces><interface>"
                \o "<name>0/3/0</name><otn-options><laser-enable></laser-enable>"
                \o "<rate>otu4</rate></otn-options></interface></interfaces>"
                \o "<version>XVZ</version></configuration>"

----------------------------------------------------------------------------
(* Properties of the decoding of the device's answer. *)

\* doc[i..] without the elements whose name is not a child of the schema
\* entry of the element around them, and without all that lies inside such an
\* element; entries holds the schema entries of the open elements, skip
\* counts the open elements inside an element that was left out
RECURSIVE PruneFrom(_, _, _, _)
PruneFrom(doc, i, entries, skip) ==
    IF i > Len(doc) THEN << >>
    ELSE LET tk == doc[i]
             top == entries[Len(entries)]
         IN  IF skip > 0
             THEN PruneFrom(doc, i + 1, entries,
                            CASE tk.t = "start" -> skip + 1
                              [] tk.t = "end" -> skip - 1
                              [] OTHER -> skip)
             ELSE CASE tk.t = "start" ->
                         IF tk.name \in DOMAIN top.Dir
                         THEN <<tk>> \o PruneFrom(doc, i + 1,
                                                  Append(entries, top.Dir[tk.name]), 0)
                         ELSE PruneFrom(doc, i + 1, entries, 1)
                    [] tk.t = "end" ->
                         <<tk>> \o PruneFrom(doc, i + 1,
                                             SubSeq(entries, 1, Len(entries) - 1), 0)
                    [] OTHER -> <<tk>> \o PruneFrom(doc, i + 1, entries, 0)

Pruned(doc) == PruneFrom(doc, 1, <<schemaTreeRoot>>, 0)

\* every entry of tree v is named after a child of schema entry e, and holds
\* a tree of which the same is true for that child
RECURSIVE Conforms(_, _)
Conforms(v, e) ==
    CASE v.g = "map" ->
           \A k \in DOMAIN v.m : k \in DOMAIN e.Dir /\ Conforms(v.m[k], e.Dir[k])
      [] v.g = "slice" -> \A i \in 1..Len(v.s) : Conforms(v.s[i], e)
      [] OTHER -> e.Dir = << >>

\* the successful get-config calls of the request in progress
Answered == {i \in 1..Len(ncsCalls) : ncsCalls[i].op = "GetConfigSubtree"
                                        /\ ncsCalls[i].err = "nil"}

\* C17: the tree decoded from a device answer has no entry for an element
\* whose name is not a child of its parent's schema entry, nor for anything
\* inside such an element; it is the tree decoded from the answer with those
\* elements cut out, so what stands before and after them is decoded as if
\* they were not there.
C17_UnknownElementsDropped ==
    \A i \in Answered :
      LET tree == netconfXMLtoMap(ncsCalls[i].result)
      IN  /\ Conforms(tree, schemaTreeRoot)
          /\ tree = netconfXMLtoMap(Pruned(ncsCalls[i].result))

\* the answer had an unknown element, holding an element named version,
\* between version and system: the tree returned for configuration holds the
\* version and the system that stand outside the unknown element
C17_Witness ==
    /\ GetSucceeded
    /\ Len(req.path) = 1
    /\ resolveFullPath(req.prefix, req.path[1]) = Path(PConfiguration)
    /\ Pruned(ncsCalls[1].result) # ncsCalls[1].result
    /\ resp.response.Notification[1].Update[1].Val =
         JsonVal(GoMap("version" :> GoString("ABC")
           @@ "system" :> GoMap("services" :> GoMap("ssh" :>
                GoMap("max-sessions-per-connection" :> GoInt64(64))))
           @@ "apply-groups" :> GoSlice(<< >>)))

\* the schema entry the names of elems lead to from entry
RECURSIVE EntryAt(_, _)
EntryAt(entry, elems) ==
    IF elems = << >> THEN entry
    ELSE EntryAt(entry.Dir[Head(elems).Name], Tail(elems))

\* the node the names of elems lead to in tree v, the first entry standing
\* for a list
RECURSIVE NodeAt(_, _)
NodeAt(v, elems) ==
    LET here == IF v.g = "slice" THEN v.s[1] ELSE v
    IN  IF elems = << >> THEN here
        ELSE NodeAt(here.m[Head(elems).Name], Tail(elems))

\* the typed value that carries Go scalar v
ScalarOf(v) ==
    CASE v.g = "uint64" -> [kind |-> "uint", n |-> v.n]
      [] v.g = "int64" -> IntVal(v.n)
      [] v.g = "string" -> StringVal(v.s)
      [] OTHER -> NilValue

\* the Go types the decoder stores for a leaf of type kind k
StoredAs(k) ==
    CASE k = "uint32" -> {"uint64"}
      [] k \in {"string", "enum"} -> {"string"}
      [] k = "union" -> {"int64", "string"}
      [] OTHER -> {}

\* C18: in a successful Get the value of each notification is of the variant
\* the schema entry of the full path asks for: for a leaf the scalar stored
\* in the decoded tree (an integer for a uint32 leaf and for a union leaf
\* whose int32 alternative took the text, a string for a string or enum
\* leaf); for a container or list a JSON value that holds the node of the
\* full path and nothing of the nodes above it.
C18_ValueVariantFromSchema ==
    GetSucceeded =>
      \A i \in 1..Len(req.path) :
        LET full == resolveFullPath(req.prefix, req.path[i])
            entry == EntryAt(schemaTreeRoot, full.Elem)
            node == NodeAt(netconfXMLtoMap(ncsCalls[i].result), full.Elem)
            val == resp.response.Notification[i].Update[1].Val
        IN  /\ entry.Kind = "leaf"
              => /\ node.g \in StoredAs(entry.Type.Kind)
                 /\ val = ScalarOf(node)
                 /\ val.kind \in {"uint", "int", "string"}
            /\ entry.Kind \in {"container", "list"}
              => val.kind = "json" /\ node.g = "map" /\ val.json = node
            /\ entry.Kind \in {"leaf", "container", "list"}

\* a Get of the integer leaf max-sessions-per-connection and of the container
\* configuration returned the integer and the JSON of what configuration
\* holds, without configuration
C18_Witness ==
    /\ GetSucceeded
    /\ Len(req.path) = 2
    /\ resolveFullPath(req.prefix, req.path[1]) = Path(PConfiguration \o PMaxSessions)
    /\ resolveFullPath(req.prefix, req.path[2]) = Path(PConfiguration)
    /\ resp.response.Notification[1].Update[1].Val = IntVal(32)
    /\ resp.response.Notification[2].Update[1].Val =
         JsonVal(GoMap("system" :> GoMap("services" :> GoMap("ssh" :>
                GoMap("max-sessions-per-connection" :> GoInt64(32))))))

\* a Get of an enum leaf under a list entry returned the trimmed text
EnumLeafWitness ==
    /\ GetSucceeded
    /\ resolveFullPath(req.prefix, req.path[1]) = Path(PConfiguration \o PRate)
    /\ resp.response.Notification[1].Update[1].Val = StringVal("otu4")

\* tree v holds an entry for every name of elems, each under the one before
\* (under some entry of it, where that is a list)
RECURSIVE Present(_, _)
Present(v, elems) ==
    \/ elems = << >>
    \/ /\ elems # << >>
       /\ CASE v.g = "map" ->
                 /\ Head(elems).Name \in DOMAIN v.m
                 /\ Present(v.m[Head(elems).Name], Tail(elems))
            [] v.g = "slice" -> \E i \in 1..Len(v.s) : Present(v.s[i], elems)
            [] OTHER -> FALSE

\* C19: a Get path that the schema knows, and for which the tree decoded
\* from the device's answer lacks the entry of some step, ends the Get with
\* NotFound right after that path's one, successful, GetConfigSubtree call;
\* a path that got its notification had every step in the tree.
C19_AbsentNodeIsNotFound ==
    InGet /\ pc \in {"path", "return", "done", "crashed"} =>
      /\ \A i \in 1..Len(notifs) :
           Present(netconfXMLtoMap(ncsCalls[i].result),
                   resolveFullPath(req.prefix, req.path[i]).Elem)
      /\ \A k \in Answered :
           ~Present(netconfXMLtoMap(ncsCalls[k].result),
                    resolveFullPath(req.prefix, req.path[k]).Elem)
             => /\ k = Len(ncsCalls)
                /\ Len(notifs) = k - 1
                /\ pc = "done"
                /\ resp.code = "NotFound"
                /\ resp.response = NilResponse

\* the device answered a Get of configuration with an empty document, or
\* one of configuration/version with a document that has no version
C19_Witness ==
    /\ GetDone /\ resp.code = "NotFound"
    /\ Len(ncsCalls) = 1 /\ ncsCalls[1].err = "nil"
    /\ \/ /\ ncsCalls[1].result = << >>
          /\ resolveFullPath(req.prefix, req.path[1]) = Path(PConfiguration)
       \/ /\ ncsCalls[1].result # << >>
          /\ resolveFullPath(req.prefix, req.path[1]) = Path(PConfiguration \o PVersion)

\* the node the names of elems lead to in tree v, as the tree holds it: a
\* list on the way stands for its first entry, a list at the end is whole
RECURSIVE SliceAt(_, _)
SliceAt(v, elems) ==
    IF elems = << >> THEN v
    ELSE SliceAt((IF v.g = "slice" THEN v.s[1] ELSE v).m[Head(elems).Name], Tail(elems))

\* the tree node a notification value carries
ValNode(val) ==
    CASE val.kind = "json" -> val.json
      [] val.kind = "string" -> GoString(val.s)
      [] val.kind = "uint" -> GoUint64(val.n)
      [] val.kind = "int" -> GoInt64(val.n)

\* C21: in a successful Get, the value returned for a path with a list step
\* is read from the first entry, in document order, that the device's answer
\* holds for that list, whatever keys the step declares.
C21_FirstListEntry ==
    GetSucceeded =>
      \A i \in 1..Len(req.path) :
        LET elems == resolveFullPath(req.prefix, req.path[i]).Elem
            tree == netconfXMLtoMap(ncsCalls[i].result)
            val == resp.response.Notification[i].Update[1].Val
        IN  \A j \in 1..Len(elems) :
              EntryAt(schemaTreeRoot, SubSeq(elems, 1, j)).Kind = "list" =>
                LET entries == SliceAt(tree, SubSeq(elems, 1, j))
                IN  /\ entries.g = "slice"
                    /\ ValNode(val) =
                         NodeAt(entries.s[1], SubSeq(elems, j + 1, Len(elems)))

\* a Get of the rate of interface 0/3/0 was answered with two interfaces, the
\* first one named 0/3/1, and returned the rate of that first one
C21_Witness ==
    /\ GetSucceeded
    /\ resolveFullPath(req.prefix, req.path[1]) = Path(PConfiguration \o PRate)
    /\ req.path[1].Elem[2].Key["name"] = "0/3/0"
    /\ LET entries == SliceAt(netconfXMLtoMap(ncsCalls[1].result),
                               PConfiguration \o SubSeq(PRate, 1, 2))
       IN  /\ Len(entries.s) = 2
           /\ entries.s[1].m["name"] = GoString("0/3/1")
    /\ resp.response.Notification[1].Update[1].Val = StringVal("otu4")

\* C22: whenever the device's answer holds a sequence at the end of a Get
\* path, of maps for a list or of scalars (or of nothing) for a leaf-list,
\* getRequestedNode succeeds, and returns the first element of the sequence
\* if it has one.
C22_TerminalSequenceFirstElement ==
    \A i \in Answered :
      LET full == resolveFullPath(req.prefix, req.path[i])
          tree == netconfXMLtoMap(ncsCalls[i].result)
      IN  Present(tree, full.Elem) /\ SliceAt(tree, full.Elem).g = "slice" =>
            LET node == SliceAt(tree, full.Elem)
                r == getRequestedNode(tree, full)
            IN  /\ r.err = "OK"
                /\ Len(node.s) > 0 => r.v = node.s[1]

\* C29: a Get that passed the encoding and model check does not end in a crash
\* of the handler.
C29_GetNeverCrashes ==
    InGet => pc # "crashed"

----------------------------------------------------------------------------
(* Properties of the coercion of Set values. *)

\* the value cannot be coerced for the schema entry: for a container or list
\* it is absent, not JSON, or JSON that is no object; for a leaf it is absent
\* or no scalar
Uncoercible(entry, val) ==
    IF entry.Kind \in {"container", "list"}
    THEN val.kind # "json" \/ val.json.j # "object"
    ELSE val.kind \notin {"int", "string"}

\* C27: a replace or update element with a known path whose value cannot be
\* coerced gets no result, and the Set that reaches it ends there with
\* Unknown, a nil response, and no EditConfigCfg call for the element.
C27_CoercionFailureIsUnknown ==
    InSet =>
      \A k \in 1..Len(SetElems(req)) :
        LET e == SetElems(req)[k]
            entry == getSchemaEntryForPath(resolveFullPath(req.prefix, e.path))
        IN  e.op \in {"REPLACE", "UPDATE"} /\ entry # NilEntry
              /\ Uncoercible(entry, e.val) =>
                /\ Len(results) < k
                /\ Len(results) = k - 1 /\ pc \in {"done", "crashed"} =>
                      /\ pc = "done"
                      /\ resp.code = "Unknown"
                      /\ resp.response = NilResponse
                      /\ Len(ncsCalls) = k - 1

\* C30: in a successful Get the update of notification i carries the elements
\* of the prefix followed by those of path i, whatever paths were processed
\* after it, and every notification carries the prefix with the elements the
\* request came with.
C30_EarlierPathsKept ==
    GetSucceeded =>
      \A i \in 1..Len(req.path) :
        LET n == resp.response.Notification[i]
        IN  /\ n.Update[1].Path.Elem = GetElem(req.prefix) \o req.path[i].Elem
            /\ GetElem(n.Prefix) = GetElem(req.prefix)

----------------------------------------------------------------------------
(* Properties of concurrent Sets. *)

\* the calls of handler h, in the order they reached the session
CallsOf(h) == SelectSeq(ncsCalls, LAMBDA c : c.handler = h)

\* the calls of handler h that the session answered without an error
AnsweredOf(h) == SelectSeq(CallsOf(h), LAMBDA c : c.call.err = "nil")

\* C28: with two Sets in progress, the calls of each handler are the edits of
\* the first elements of its own delete ++ replace ++ update, in that order,
\* wherever the calls of the other handler fall between them, and each
\* handler has one UpdateResult per call of its own that succeeded; and a
\* handler that has an element to process can process it at any moment,
\* whatever the other handler is doing, also while the other waits for the
\* device: nothing makes it wait for the other request.
C28_ConcurrentSetsInterleave ==
    \A h \in Handlers :
      /\ req[h] # NoRequest =>
            /\ Len(AnsweredOf(h)) = Len(results[h])
            /\ Len(CallsOf(h)) \in {Len(results[h]), Len(results[h]) + 1}
            /\ Len(CallsOf(h)) <= Len(SetElems(req[h]))
            /\ \A i \in 1..Len(CallsOf(h)) :
                 IsEditOf(CallsOf(h)[i].call, req[h], SetElems(req[h])[i])
      /\ pc[h] \in DOMAIN InEditConfigCfg => ENABLED ConcExecute(h)

\* both handlers have their first edit at the session and wait for the
\* reply: neither call has been answered and neither handler has a result
BothInFlight ==
    /\ \A h \in Handlers :
         /\ \E l \in DOMAIN InEditConfigCfg : pc[h] = InEditConfigCfg[l]
         /\ results[h] = << >>
    /\ Len(ncsCalls) = 2
    /\ \A k \in 1..2 : ncsCalls[k].call.err = "pending"

\* both Sets succeeded, and their edits reached the session in turns: the
\* delete of the one, the delete of the other, then the replace and the
\* update of the one with the second delete of the other between them
C28_Witness ==
    /\ \A h \in Handlers : pc[h] = "done" /\ resp[h].code = "OK"
    /\ Len(req[1].replace) = 1 /\ Len(req[2].delete) = 2
    /\ [i \in 1..Len(ncsCalls) |-> ncsCalls[i].handler] = <<1, 2, 1, 2, 1>>

----------------
(* Properties of the coercion of leaf texts. *)

Returned(fn) == pc = "returned" /\ req.fn = fn

\* the text is a decimal numeral of a 32-bit signed integer
IsInt32Text(str) == str \in {"0", "32", "64", "-5", "2147483647"}

\* C23: for a leaf of kind int32 getLeafValue returns the signed integer the
\* trimmed text denotes, as it returns the unsigned integer for a leaf of kind
\* uint32.
C23_Int32LeafIsInteger ==
    Returned("getLeafValue") =>
      LET text == TrimSpace(req.v)
      IN  /\ req.schema.Type.Kind = "uint32" /\ text \in DOMAIN Numerals
            => resp = GoUint64(Numerals[text])
          /\ req.schema.Type.Kind = "int32" /\ IsInt32Text(text)
            => resp = GoInt64(SignedNumerals[text])

\* the characters of the trimmed texts
TextChars ==
    "aa" :> <<"a", "a">> @@ "b" :> <<"b">> @@ "64" :> <<"6", "4">>
      @@ "-5" :> <<"-", "5">>
      @@ "2147483647" :> <<"2", "1", "4", "7", "4", "8", "3", "6", "4", "7">>

\* what is left of pattern p from i on matches what is left of text from j
\* on, for a pattern of characters and ".", each with or without "*"
RECURSIVE MatchFrom(_, _, _, _)
MatchFrom(p, i, text, j) ==
    IF i > Len(p) THEN j > Len(text)
    ELSE LET one == j <= Len(text) /\ (p[i] = "." \/ p[i] = text[j])
         IN  IF i < Len(p) /\ p[i + 1] = "*"
             THEN MatchFrom(p, i + 2, text, j) \/ (one /\ MatchFrom(p, i, text, j + 1))
             ELSE one /\ MatchFrom(p, i + 1, text, j + 1)

\* pattern p compiles once transformed, and matches the whole of v
CompilesAndMatches(p, v) ==
    /\ Compile(fixYangRegexp(p)) = "nil"
    /\ MatchFrom(p, 1, TextChars[v], 1)

\* C24: isValidString returns, and accepts the text exactly when every
\* pattern of the string alternative compiles after the transformation and
\* matches the whole text; a pattern that does not compile makes it return
\* false.
C24_StringAlternative ==
    Returned("isValidString") =>
      /\ resp.err = "OK"
      /\ resp.ok = (\A k \in 1..Len(req.t.Pattern) :
                      CompilesAndMatches(req.t.Pattern[k], req.v))

\* the number a yang.Number stands for
NumberValue(n) == IF n.Negative THEN -n.Value ELSE n.Value

\* alternative t of a union accepts text v
Accepts(v, t) ==
    CASE t.Kind = "string" ->
           \A k \in 1..Len(t.Pattern) : CompilesAndMatches(t.Pattern[k], v)
      [] t.Kind = "int32" ->
           /\ IsInt32Text(v)
           /\ \E k \in 1..Len(t.Range) :
                /\ NumberValue(t.Range[k].Min) <= SignedNumerals[v]
                /\ SignedNumerals[v] <= NumberValue(t.Range[k].Max)

\* C25: getUnionValue returns the value of the first alternative, in declared
\* order, that accepts the text, the string for a string alternative and the
\* integer for an int32 alternative whose ranges hold it, and fails with
\* NotFound when no alternative accepts.
C25_UnionFirstAccepting ==
    Returned("getUnionValue") =>
      LET accepting == {k \in 1..Len(req.types) : Accepts(req.v, req.types[k])}
          first == CHOOSE k \in accepting : \A m \in accepting : k <= m
      IN  IF accepting = {} THEN resp = [err |-> "NotFound", val |-> GoNil]
          ELSE resp = [err |-> "nil",
                       val |-> IF req.types[first].Kind = "string"
                               THEN GoString(req.v)
                               ELSE GoInt64(SignedNumerals[req.v])]

\* the number of backslashes that stand right before character k of re
RECURSIVE BackslashesBefore(_, _)
BackslashesBefore(re, k) ==
    IF k > 1 /\ re[k - 1] = "\\" THEN 1 + BackslashesBefore(re, k - 1) ELSE 0

Escaped(re, k) == BackslashesBefore(re, k) % 2 = 1

\* C26: what fixYangRegexp returns begins with an unescaped "^" and ends
\* with an unescaped "$", which may stand inside the closing parenthesis of
\* the group put around the pattern; every other "$" and "^" in it is
\* escaped, but for a "^" right after "[".
C26_AnchoredAtBothEnds ==
    Returned("fixYangRegexp") =>
      LET n == Len(resp)
          grouped == n >= 2 /\ resp[2] = "(" /\ resp[n] = ")" /\ ~Escaped(resp, n)
          end == IF grouped THEN n - 1 ELSE n
      IN  /\ n >= 2
          /\ resp[1] = "^"
          /\ resp[end] = "$" /\ ~Escaped(resp, end)
          /\ \A k \in 2..n :
                k # end /\ resp[k] \in {"$", "^"} /\ ~Escaped(resp, k)
                  => resp[k] = "^" /\ resp[k - 1] = "["

----------------------------------------------------------------------------
(* Properties of Capabilities. *)

\* C20: Capabilities, whenever it is served, succeeds with the list of models
\* the adapter was built with and the encoding list [JSON], and makes no
\* call on the device session.
C20_Capabilities ==
    req.rpc = "Capabilities" =>
      /\ pc = "done"
      /\ resp.code = "OK"
      /\ resp.response.SupportedModels =
           << [Name |-> "junos-conf-interfaces", Organization |-> "Juniper",
               Version |-> "2019-01-01"],
              [Name |-> "junos-conf-system", Organization |-> "Juniper",
               Version |-> "2019-01-01"] >>
      /\ resp.response.SupportedEncodings = <<"JSON">>
      /\ ncsCalls = << >>

\* Capabilities was served
C20_Witness ==
    /\ req.rpc = "Capabilities"
    /\ pc = "done"
    /\ resp.code = "OK"
    /\ Len(resp.response.SupportedModels) = 2

====
